---------------------------- MODULE Spec2Model ----------------------------
(***************************************************************************)
(* The Wholphin search API client (class WholphinAPI): parameter           *)
(* validation, the timeout-bounded fetch and the retry loop of _request,   *)
(* for one search call on one client.                                      *)
(*                                                                         *)
(* JavaScript values are records [t, s, n, d]: t is the typeof tag         *)
(* ("undefined", "null", "string", "number"), s the characters of a        *)
(* string, n + d/10 the value of a number (d = 0 for an integer).          *)
(***************************************************************************)
EXTENDS Integers, Sequences, FiniteSets, TLC

(***************************************************************************)
(* Program constants                                                       *)
(***************************************************************************)
API_BASE_URL ==
    <<"h", "t", "t", "p", "s", ":", "/", "/", "a", "p", "i", ".", "p", "2", "p",
      "e", "a", "r", ".", "a", "s", "i", "a">>
DEFAULT_TIMEOUT == 30000
MAX_RETRY_ATTEMPTS == 3
RETRY_DELAY_BASE == 1000
JITTER_RANGE == 1000
PAGE_MIN == 1
PAGE_MAX == 10
SAFESEARCH_MIN == 0
SAFESEARCH_MAX == 2
QUERY_MAX_LENGTH == 1000
ALLOWED_LANGUAGES == << <<"j", "a">>, <<"e", "n">> >>
SearchType ==
    << <<"w", "e", "b">>, <<"i", "m", "a", "g", "e">>,
       <<"s", "u", "g", "g", "e", "s", "t">>, <<"v", "i", "d", "e", "o">>,
       <<"n", "e", "w", "s">>, <<"p", "a", "n", "e", "l">> >>
retryableStatuses == <<408, 429, 500, 502, 503, 504>>

(***************************************************************************)
(* Bounds of the model                                                     *)
(***************************************************************************)
\* maxRetries is drawn from -1 .. MaxRetriesBound
MaxRetriesBound == 3
\* the query strings tried have at most MaxQueryChars characters (and the two
\* strings of QUERY_MAX_LENGTH and QUERY_MAX_LENGTH + 1 characters)
MaxQueryChars == 2
\* maxRetries is at most FairRetries where termination is checked
FairRetries == 2
\* maxRetries of the client that two concurrent calls are made on
ConcurrentRetries == 2

(***************************************************************************)
(* JavaScript values                                                       *)
(***************************************************************************)
Undefined == [t |-> "undefined", s |-> <<>>, n |-> 0, d |-> 0]
Null == [t |-> "null", s |-> <<>>, n |-> 0, d |-> 0]
Str(chars) == [t |-> "string", s |-> chars, n |-> 0, d |-> 0]
Num(i) == [t |-> "number", s |-> <<>>, n |-> i, d |-> 0]
Frac(i, tenths) == [t |-> "number", s |-> <<>>, n |-> i, d |-> tenths]

\* !v
Falsy(v) ==
    \/ v.t \in {"undefined", "null"}
    \/ v.t = "string" /\ v.s = <<>>
    \/ v.t = "number" /\ v.n = 0 /\ v.d = 0

\* Number.isInteger(v)
IsInteger(v) == v.t = "number" /\ v.d = 0

\* array.includes(x) for an array of strings
Includes(arr, v) == v.t = "string" /\ \E i \in 1..Len(arr) : arr[i] = v.s

IsSpace(c) == c = " "

RECURSIVE TrimStart(_)
TrimStart(s) ==
    IF s # <<>> /\ IsSpace(Head(s)) THEN TrimStart(Tail(s)) ELSE s

RECURSIVE TrimEnd(_)
TrimEnd(s) ==
    IF s # <<>> /\ IsSpace(s[Len(s)])
    THEN TrimEnd(SubSeq(s, 1, Len(s) - 1))
    ELSE s

\* String.prototype.trim
Trim(s) == TrimEnd(TrimStart(s))

(***************************************************************************)
(* WholphinAPIError                                                        *)
(***************************************************************************)
NoStatus == 0

\* new WholphinAPIError(message, status, details, isRetryable = false)
WholphinAPIError(message, status, details, isRetryable) ==
    [name |-> "WholphinAPIError", message |-> message, status |-> status,
     details |-> details, isRetryable |-> isRetryable]

\* WholphinAPIError3 with isRetryable defaulting to true
WholphinAPIError3DefaultTrue(message, status, details) ==
    WholphinAPIError(message, status, details, TRUE)

\* the three-argument form: isRetryable takes its default
WholphinAPIError3(message, status, details) ==
    WholphinAPIError(message, status, details, FALSE)

(***************************************************************************)
(* _validateSearchParams: the list of violations, in the order pushed      *)
(***************************************************************************)
\* QueryErrors without the test of the trimmed query
QueryErrorsNoTrim(q) ==
    IF Falsy(q) THEN <<"Search query (q) is required">>
    ELSE IF q.t # "string" THEN <<"Search query must be a string">>
    ELSE IF Len(q.s) > QUERY_MAX_LENGTH
         THEN <<"Search query exceeds maximum length">>
    ELSE <<>>

QueryErrors(q) ==
    IF Falsy(q) THEN <<"Search query (q) is required">>
    ELSE IF q.t # "string" THEN <<"Search query must be a string">>
    ELSE IF Trim(q.s) = <<>> THEN <<"Search query cannot be empty">>
    ELSE IF Len(q.s) > QUERY_MAX_LENGTH
         THEN <<"Search query exceeds maximum length">>
    ELSE <<>>

PageErrors(page) ==
    IF page # Undefined
    THEN IF ~IsInteger(page) THEN <<"Page must be an integer">>
         ELSE IF page.n < PAGE_MIN \/ page.n > PAGE_MAX
              THEN <<"Page must be between PAGE_MIN and PAGE_MAX">>
         ELSE <<>>
    ELSE <<>>

SafesearchErrors(safesearch) ==
    IF safesearch # Undefined
    THEN IF ~IsInteger(safesearch) THEN <<"Safesearch must be an integer">>
         ELSE IF safesearch.n < SAFESEARCH_MIN \/ safesearch.n > SAFESEARCH_MAX
              THEN <<"Safesearch must be between SAFESEARCH_MIN and SAFESEARCH_MAX">>
         ELSE <<>>
    ELSE <<>>

LangErrors(lang) ==
    IF lang # Undefined
    THEN IF lang.t # "string" THEN <<"Language must be a string">>
         ELSE IF ~Includes(ALLOWED_LANGUAGES, lang)
              THEN <<"Language must be one of ALLOWED_LANGUAGES">>
         ELSE <<>>
    ELSE <<>>

TypeErrors(type) ==
    IF type # Undefined
    THEN IF ~Includes(SearchType, type)
         THEN <<"Type must be one of validTypes">>
         ELSE <<>>
    ELSE <<>>

\* ValidationErrors stopping at the first violation found
ValidationErrorsFirstOnly(o) ==
    LET all == QueryErrors(o.q) \o PageErrors(o.page)
                   \o SafesearchErrors(o.safesearch) \o LangErrors(o.lang)
                   \o TypeErrors(o.type)
    IN  IF all = <<>> THEN <<>> ELSE <<Head(all)>>

ValidationErrors(o) ==
    QueryErrors(o.q) \o PageErrors(o.page) \o SafesearchErrors(o.safesearch)
        \o LangErrors(o.lang) \o TypeErrors(o.type)

(***************************************************************************)
(* _isRetryableError, _calculateRetryDelay                                 *)
(***************************************************************************)
\* IsRetryableError taking every client and server error status as transient
IsRetryableAnyFailure(status) == status = NoStatus \/ status >= 400

\* _isRetryableError(error, status): the error argument is never read
IsRetryableError(status) ==
    IF status = NoStatus THEN TRUE
    ELSE \E i \in 1..Len(retryableStatuses) : retryableStatuses[i] = status

RECURSIVE Pow2(_)
Pow2(k) == IF k <= 0 THEN 1 ELSE 2 * Pow2(k - 1)

\* CalculateRetryDelay counting attempts from 1
CalculateRetryDelayOneBased(k, jitter) == RETRY_DELAY_BASE * Pow2(k + 1) + jitter

\* _calculateRetryDelay(attempt), with jitter the value of Math.random() * 1000
CalculateRetryDelay(k, jitter) == RETRY_DELAY_BASE * Pow2(k) + jitter

\* the values of Math.random() * 1000 tried (whole milliseconds):
\* the two ends of [0, JITTER_RANGE)
JitterValues == {0, JITTER_RANGE - 1}

(***************************************************************************)
(* The environment: the responses of the remote service                    *)
(***************************************************************************)
\* body texts; StreamError is a body whose read rejects (the connection
\* drops while the body is streamed)
BodyResults == "{\"results\":[]}"
BodyError == "{\"error\":\"x\"}"
BodyHtml == "<html>"
StreamError == "#stream-error#"
Bodies == {BodyResults, BodyError, BodyHtml, StreamError}

\* response.headers.get('content-type'); "null" when the header is missing
ContentTypes == {"application/json", "text/html", "null"}

\* contentType && contentType.includes('application/json')
IsJsonContentType(ct) == ct \in {"application/json", "application/json; charset=utf-8"}

Statuses == {200, 404, 501, 408, 429, 500, 502, 503, 504}
\* statuses tried with every content type and body; the others are tried
\* with one body only
DetailedStatuses == {200, 404, 503}

Responses ==
    {r \in [status : Statuses, contentType : ContentTypes, body : Bodies] :
        r.status \notin DetailedStatuses
            => r.contentType = "text/html" /\ r.body = BodyHtml}

NoResponse == [status |-> NoStatus, contentType |-> "null", body |-> ""]

\* response.ok
Ok(r) == r.status >= 200 /\ r.status <= 299

\* details payloads: [kind, v]
NoDetails == [kind |-> "null", v |-> ""]
TextDetails(text) == [kind |-> "text", v |-> text]
JsonValue(text) == [kind |-> "json", v |-> text]
ErrorObject(name) == [kind |-> "Error", v |-> name]

\* response.text(): [ok, value] or a rejection
ReadText(body) ==
    IF body = StreamError
    THEN [ok |-> FALSE, value |-> ErrorObject("TypeError")]
    ELSE [ok |-> TRUE, value |-> TextDetails(body)]

\* ReadJson handing back the text unparsed
ReadJsonAsText(body) ==
    IF body = StreamError
    THEN [ok |-> FALSE, value |-> ErrorObject("TypeError")]
    ELSE [ok |-> TRUE, value |-> TextDetails(body)]

\* response.json(): the text is read, then parsed
ReadJson(body) ==
    IF body = StreamError
    THEN [ok |-> FALSE, value |-> ErrorObject("TypeError")]
    ELSE IF body \in {BodyResults, BodyError}
    THEN [ok |-> TRUE, value |-> JsonValue(body)]
    ELSE [ok |-> FALSE, value |-> ErrorObject("SyntaxError")]

(***************************************************************************)
(* Requests and client configurations tried                                *)
(***************************************************************************)
Chars == {"a", " "}
LongQuery(len) == [i \in 1..len |-> "a"]

ShortStrings == UNION {[1..len -> Chars] : len \in 0..MaxQueryChars}

QueryValues ==
    {Undefined, Null, Num(0), Num(42)}
        \cup {Str(s) : s \in ShortStrings}
        \cup {Str(<<"a", "&", "q", "=", "b">>)}
        \cup {Str(LongQuery(QUERY_MAX_LENGTH)), Str(LongQuery(QUERY_MAX_LENGTH + 1))}

PageValues ==
    {Undefined, Null, Frac(1, 5), Num(PAGE_MIN - 1), Num(PAGE_MIN),
     Num(PAGE_MAX), Num(PAGE_MAX + 1)}

SafesearchValues ==
    {Undefined, Null, Frac(1, 5), Num(SAFESEARCH_MIN - 1), Num(SAFESEARCH_MIN),
     Num(SAFESEARCH_MAX), Num(SAFESEARCH_MAX + 1)}

LangValues ==
    {Undefined, Null, Num(1), Str(<<"j", "a">>), Str(<<"e", "n">>),
     Str(<<"f", "r">>)}

TypeValues ==
    {Undefined, Null, Str(<<"w", "e", "b">>), Str(<<"p", "a", "n", "e", "l">>),
     Str(<<"b", "l", "o", "g">>)}

AllRequests ==
    [q : QueryValues, page : PageValues, safesearch : SafesearchValues,
     lang : LangValues, type : TypeValues]

\* the requests tried with every client configuration
PlainRequests ==
    {o \in AllRequests :
        /\ o.q \in {Str(<<"a">>), Str(<<>>)}
        /\ o.page = Undefined /\ o.safesearch = Undefined
        /\ o.lang = Undefined /\ o.type = Undefined}

\* the value of options in the model when search is given no object
DefaultRequest ==
    [q |-> Str(<<"a">>), page |-> Undefined, safesearch |-> Undefined,
     lang |-> Undefined, type |-> Undefined]

MaxRetriesValues == (-1)..MaxRetriesBound

(***************************************************************************)
(* new URL(url) and _validateUrl                                           *)
(***************************************************************************)
UpperLetters ==
    <<"A", "B", "C", "D", "E", "F", "G", "H", "I", "J", "K", "L", "M", "N", "O",
      "P", "Q", "R", "S", "T", "U", "V", "W", "X", "Y", "Z">>
LowerLetters ==
    <<"a", "b", "c", "d", "e", "f", "g", "h", "i", "j", "k", "l", "m", "n", "o",
      "p", "q", "r", "s", "t", "u", "v", "w", "x", "y", "z">>
Digits == <<"0", "1", "2", "3", "4", "5", "6", "7", "8", "9">>

IsAlpha(c) == \E i \in 1..26 : c = UpperLetters[i] \/ c = LowerLetters[i]
IsDigit(c) == \E i \in 1..10 : c = Digits[i]
Lower(c) ==
    IF \E i \in 1..26 : c = UpperLetters[i]
    THEN LowerLetters[CHOOSE i \in 1..26 : c = UpperLetters[i]]
    ELSE c

\* String(value) for the values a base URL is given as
StringOf(v) ==
    CASE v.t = "string" -> v.s
      [] v.t = "null" -> <<"n", "u", "l", "l">>
      [] v.t = "undefined" -> <<"u", "n", "d", "e", "f", "i", "n", "e", "d">>

\* the position of the first c in s, 0 when there is none
IndexOf(s, c) ==
    IF \E i \in DOMAIN s : s[i] = c
    THEN CHOOSE i \in DOMAIN s : s[i] = c /\ \A j \in 1..(i - 1) : s[j] # c
    ELSE 0

\* s without its leading slashes and backslashes
RECURSIVE SkipSlashes(_)
SkipSlashes(s) ==
    IF s # <<>> /\ Head(s) \in {"/", "\\"} THEN SkipSlashes(Tail(s)) ELSE s

\* the host: what comes before the first "/", "?" or "#"
RECURSIVE HostOf(_)
HostOf(s) ==
    IF s = <<>> \/ Head(s) \in {"/", "?", "#", "\\"}
    THEN <<>>
    ELSE <<Head(s)>> \o HostOf(Tail(s))

\* the schemes whose URLs need a host
HostSchemes ==
    {<<"h", "t", "t", "p">>, <<"h", "t", "t", "p", "s">>, <<"f", "t", "p">>,
     <<"w", "s">>, <<"w", "s", "s">>}

\* new URL(url) without a base, for URLs of letters, digits, ".", "-", ":",
\* "/" and spaces: whether it parses, and the protocol of the parsed URL
ParseURL(href) ==
    LET s == Trim(href)
        colon == IndexOf(s, ":")
        scheme == [i \in 1..(colon - 1) |-> Lower(s[i])]
        rest == SubSeq(s, colon + 1, Len(s))
        schemeOk ==
            /\ colon > 1
            /\ IsAlpha(s[1])
            /\ \A i \in 2..(colon - 1) :
                   IsAlpha(s[i]) \/ IsDigit(s[i]) \/ s[i] \in {"+", "-", "."}
    IN  IF ~schemeOk
        THEN [ok |-> FALSE, protocol |-> <<>>]
        ELSE IF scheme \in HostSchemes /\ HostOf(SkipSlashes(rest)) = <<>>
        THEN [ok |-> FALSE, protocol |-> <<>>]
        ELSE [ok |-> TRUE, protocol |-> scheme \o <<":">>]

\* what _validateUrl returns when it throws nothing
NothingThrown ==
    [name |-> "none", message |-> "", status |-> NoStatus, details |-> NoDetails,
     isRetryable |-> FALSE]

\* _validateUrl accepting every URL that parses
ValidateUrlAnyProtocol(href) ==
    IF ~ParseURL(href).ok
    THEN WholphinAPIError3("Invalid base URL: Invalid URL", NoStatus,
                           ErrorObject("TypeError"))
    ELSE NothingThrown

\* _validateUrl(url): the error it throws
ValidateUrl(href) ==
    LET parsed == ParseURL(href)
    IN  IF ~parsed.ok
        THEN WholphinAPIError3("Invalid base URL: Invalid URL", NoStatus,
                               ErrorObject("TypeError"))
        ELSE IF parsed.protocol \notin {<<"h", "t", "t", "p", ":">>,
                                        <<"h", "t", "t", "p", "s", ":">>}
        THEN WholphinAPIError3("Invalid base URL: URL must use HTTP or HTTPS protocol",
                               NoStatus, ErrorObject("Error"))
        ELSE NothingThrown

(***************************************************************************)
(* The convenience wrappers                                                *)
(***************************************************************************)
\* a key that an object does not have
Absent == [t |-> "absent", s |-> <<>>, n |-> 0, d |-> 0]

\* object.key
Get(object, key) == IF object[key] = Absent THEN Undefined ELSE object[key]

Keys == {"q", "page", "safesearch", "lang", "type"}

\* {}
EmptyObject == [k \in Keys |-> Absent]

\* searchWeb, searchImages, searchVideos, searchNews, getSuggestions,
\* getPanel and the SearchType each of them names
Wrappers ==
    {"searchWeb", "searchImages", "searchVideos", "searchNews", "getSuggestions",
     "getPanel"}
WrapperType(name) ==
    CASE name = "searchWeb" -> SearchType[1]
      [] name = "searchImages" -> SearchType[2]
      [] name = "getSuggestions" -> SearchType[3]
      [] name = "searchVideos" -> SearchType[4]
      [] name = "searchNews" -> SearchType[5]
      [] name = "getPanel" -> SearchType[6]

\* { ...first, ...second }: the keys of second win
Spread(first, second) ==
    [k \in Keys |-> IF second[k] # Absent THEN second[k] ELSE first[k]]

\* { q: query, type: SearchType.X, ...options }
WrapperRequest(name, query, opts) ==
    Spread([EmptyObject EXCEPT !["q"] = query, !["type"] = Str(WrapperType(name))],
           opts)

\* the queries and options objects the wrappers are tried with
WrapperQueries == {Undefined, Str(<<"a">>), Str(<<" ", "a">>)}
WrapperOptions ==
    {o \in [Keys -> {Absent, Undefined, Str(<<"b">>), Str(<<"w", "e", "b">>),
                      Str(<<"b", "l", "o", "g">>), Str(<<"j", "a">>), Num(1),
                      Num(2), Num(11)}] :
        /\ o["q"] \in {Absent, Undefined, Str(<<"b">>)}
        /\ o["type"] \in {Absent, Undefined, Str(<<"w", "e", "b">>),
                          Str(<<"b", "l", "o", "g">>)}
        /\ o["page"] \in {Absent, Num(1), Num(11)}
        /\ o["safesearch"] \in {Absent, Num(2)}
        /\ o["lang"] \in {Absent, Str(<<"j", "a">>)}}

NoWrapper == [name |-> "none", query |-> Undefined, options |-> EmptyObject]

(***************************************************************************)
(* _buildQueryString and the URL of _request. A URL is a sequence of units: *)
(* a unit is one character or one percent escape                           *)
(***************************************************************************)
\* the decimal digits of a natural number
RECURSIVE DigitsOf(_)
DigitsOf(n) ==
    IF n < 10 THEN <<Digits[n + 1]>> ELSE DigitsOf(n \div 10) \o <<Digits[(n % 10) + 1]>>

\* String(value) of a number
NumberToString(v) ==
    (IF v.n < 0 THEN <<"-">> \o DigitsOf(-v.n) ELSE DigitsOf(v.n))
        \o (IF v.d = 0 THEN <<>> ELSE <<".">> \o DigitsOf(v.d))

\* `${value}` of a request parameter
TemplateString(v) == IF v.t = "number" THEN NumberToString(v) ELSE StringOf(v)

\* the characters encodeURIComponent leaves as they are
Unreserved(c) ==
    IsAlpha(c) \/ IsDigit(c) \/ c \in {"-", "_", ".", "!", "~", "*", "'", "(", ")"}

\* the percent escape of a character that is not left as it is
PercentEscape(c) ==
    CASE c = " " -> "%20"
      [] c = "&" -> "%26"
      [] c = "=" -> "%3D"
      [] c = "?" -> "%3F"
      [] c = "/" -> "%2F"
      [] c = "#" -> "%23"
      [] c = "%" -> "%25"
      [] c = "+" -> "%2B"
      [] c = ":" -> "%3A"

\* encodeURIComponent(s)
EncodeURIComponent(s) ==
    [i \in DOMAIN s |-> IF Unreserved(s[i]) THEN s[i] ELSE PercentEscape(s[i])]

\* parts.join(separator)
RECURSIVE Join(_, _)
Join(parts, separator) ==
    IF parts = <<>> THEN <<>>
    ELSE IF Len(parts) = 1 THEN parts[1]
    ELSE parts[1] \o <<separator>> \o Join(Tail(parts), separator)

Defined(entry) == entry[2] # Undefined /\ entry[2] # Null

\* _buildQueryString keeping every entry
BuildQueryStringUnfiltered(params) ==
    LET mapped ==
            [i \in DOMAIN params |->
                EncodeURIComponent(params[i][1]) \o <<"=">>
                    \o EncodeURIComponent(TemplateString(params[i][2]))]
    IN  IF Len(params) > 0 THEN <<"?">> \o Join(mapped, "&") ELSE <<>>

\* _buildQueryString(params), params being the entries of the object in order
BuildQueryString(params) ==
    LET filtered == SelectSeq(params, Defined)
        mapped ==
            [i \in DOMAIN filtered |->
                EncodeURIComponent(filtered[i][1]) \o <<"=">>
                    \o EncodeURIComponent(TemplateString(filtered[i][2]))]
    IN  IF Len(filtered) > 0 THEN <<"?">> \o Join(mapped, "&") ELSE <<>>

\* the params object search builds from its argument
SearchParams(o) ==
    << <<(<<"q">>), Str(Trim(o.q.s))>>,
       <<(<<"p", "a", "g", "e">>), o.page>>,
       <<(<<"t", "y", "p", "e">>), o.type>>,
       <<(<<"s", "a", "f", "e", "s", "e", "a", "r", "c", "h">>), o.safesearch>>,
       <<(<<"l", "a", "n", "g">>), o.lang>> >>

\* `${this.baseUrl}${endpoint}${this._buildQueryString(params)}`
RequestUrl(base, endpoint, params) == base \o endpoint \o BuildQueryString(params)

SearchEndpoint == <<"/", "s", "e", "a", "r", "c", "h">>
NoUrl == <<>>

(***************************************************************************)
(* The arguments the constructor is tried with                             *)
(***************************************************************************)
JsFalse == [t |-> "boolean", s |-> <<>>, n |-> 0, d |-> 0]
JsTrue == [t |-> "boolean", s |-> <<>>, n |-> 1, d |-> 0]

\* base URLs with the scheme http or https that parse
HttpUrls ==
    {<<"h", "t", "t", "p", ":", "/", "/", "a">>,
     <<"h", "t", "t", "p", "s", ":", "/", "/", "a", ".", "b">>,
     <<"H", "T", "T", "P", "S", ":", "/", "/", "a">>,
     <<" ", "h", "t", "t", "p", ":", "/", "/", "a">>,
     <<"h", "t", "t", "p", ":", "a">>,
     API_BASE_URL}

\* base URLs of another scheme that parse
OtherSchemeUrls ==
    {<<"f", "t", "p", ":", "/", "/", "a">>,
     <<"w", "s", ":", "/", "/", "a">>,
     <<"f", "i", "l", "e", ":", "/", "/", "/", "a">>,
     <<"x", ":", "a">>,
     <<"h", "t", "t", "p", "x", ":", "/", "/", "a">>}

\* strings that do not parse as a URL
UnparsableUrls ==
    {<<>>, <<"a">>, <<"/", "/", "a">>, <<"a", ".", "b", "/", "c">>,
     <<"h", "t", "t", "p", ":", "/", "/">>, <<"h", "t", "t", "p", "s", ":">>,
     <<"1", "h", ":", "/", "/", "a">>, <<":", "/", "/", "a">>}

BaseUrlValues ==
    {Undefined, Null} \cup {Str(u) : u \in HttpUrls \cup OtherSchemeUrls \cup UnparsableUrls}

ConstructorKeys == {"timeout", "maxRetries", "enableRetry"}
ConstructorOptions ==
    {o \in [ConstructorKeys -> {Absent, Undefined, Num(0), Num(2), Num(5000),
                                 JsFalse, JsTrue}] :
        /\ o["timeout"] \in {Absent, Num(0), Num(5000)}
        /\ o["maxRetries"] \in {Absent, Undefined, Num(0), Num(2)}
        /\ o["enableRetry"] \in {Absent, Undefined, JsFalse, JsTrue}}

NoConstructorArgs ==
    [baseUrl |-> Undefined, options |-> [k \in ConstructorKeys |-> Absent]]
NoClient == <<>>

(***************************************************************************)
(* State                                                                   *)
(***************************************************************************)
VARIABLES
    baseUrl,       \* this.baseUrl
    timeout,       \* this.timeout
    maxRetries,    \* this.maxRetries
    enableRetry,   \* this.enableRetry
    argument,      \* what search was given: "object", "undefined" or "null"
    options,       \* the argument of search, when it is an object
    pc,            \* where the call is: "idle", "fetch", "errorBody",
                   \* "textBody", "jsonBody", "delay", "done"; "new" and
                   \* "noClient" before and after a constructor that throws,
                   \* "wrapper" before a convenience wrapper calls search
    attempt,       \* the loop counter of _request
    lastError,     \* the variable lastError of _request
    timer,         \* the timeout timer of _fetchWithTimeout:
                   \* "none", "armed", "cleared", "fired"
    controller,    \* the AbortController of the current attempt
    abortedSignals, \* the controllers whose abort() has been called
    response,      \* the response of the current attempt
    httpAttempts,  \* the number of calls of fetch made by the call
    url,           \* the constant url of _request
    fetchLog,      \* the method and URL of each call of fetch, in order
    attemptLog,    \* how each fetch settled, in order
    delays,        \* the arguments of the calls of _delay, in order
    outcome,       \* what search returned or raised
    wrapperArgs,   \* the convenience wrapper called and its arguments
    constructorArgs, \* the arguments of the constructor
    self,          \* which search call the variables above describe
    other,         \* the state of a second search call on the same client
    bodyUsed,      \* response.bodyUsed, for the client of src/js/api.js
    tabs,          \* TabManager: this.tabs, the ids of the tab objects in order
    tabObjects,    \* TabManager: the tab objects ever created, by id
    activeTabId,   \* TabManager: this.activeTabId
    nextTabId,     \* TabManager: this.nextTabId
    app,           \* the app: query, currentType, results, currentPage,
                   \* searchPerformed
    scrollY,       \* window.scrollY
    scrollTimers,  \* the pending callbacks of setTimeout(..., 100) of
                   \* switchTab, in the order they were set
    lastCalls,     \* the latest calls made on the component, newest last
    userScrolled,  \* the user has scrolled the window since the latest switch
                   \* of tab
    storage,       \* localStorage: the item stored under
                   \* 'wholphin_search_history'
    selectedItems, \* MultiSelect: this.selectedItems, in insertion order
    resultIndex,   \* KeyboardNavigation: this.resultIndex
    suggestionIndex, \* KeyboardNavigation: this.suggestionIndex
    isMetaKey,     \* KeyboardNavigation: this.isMetaKey
    appUi,         \* the app: showQuickLook, showContextMenu, showSettings,
                   \* showSuggestions, isSearchFocused, suggestions,
                   \* quickLookData
    inputFocused,  \* document.activeElement is the search input
    opened,        \* the URLs given to window.open by the listeners of the
                   \* latest keydown event, in order
    location,      \* window.location.href
    appCalls,      \* the methods of the app called by the listeners of the
                   \* latest keydown event
    lastKey,       \* the keydown event dispatched by the latest step
    listenerOrder  \* which keydown listener was added to the document first

vars ==
    <<baseUrl, timeout, maxRetries, enableRetry, argument, options, pc, attempt,
      lastError, timer, controller, abortedSignals, response, httpAttempts, url,
      fetchLog, attemptLog, delays, outcome, wrapperArgs, constructorArgs, self,
      other, bodyUsed, tabs, tabObjects, activeTabId, nextTabId, app, scrollY,
      scrollTimers, lastCalls, userScrolled, storage, selectedItems, resultIndex,
      suggestionIndex, isMetaKey, appUi, inputFocused, opened, location, appCalls,
      lastKey, listenerOrder>>

\* the state that the client of part_001 does not read or write
\* the state of the components of src/js/advanced-features.js
keyState ==
    <<selectedItems, resultIndex, suggestionIndex, isMetaKey, appUi, inputFocused,
      opened, location, appCalls, lastKey, listenerOrder>>
KeysKept == UNCHANGED keyState

pageState ==
    <<tabs, tabObjects, activeTabId, nextTabId, app, scrollY, scrollTimers,
      lastCalls, userScrolled, storage, keyState>>
PageKept == UNCHANGED pageState

\* the app before any component is constructed
FreshApp ==
    [query |-> <<>>, currentType |-> "web", results |-> <<>>, currentPage |-> 1,
     searchPerformed |-> FALSE]

\* null as this.activeTabId
NoTab == 0

\* null as the result of localStorage.getItem: nothing is stored
NoItem == [kind |-> "null", value |-> <<>>]

\* the page the app is on
PageUrl == <<"page">>

\* no keydown event dispatched yet
NoKey == [key |-> "none", metaKey |-> FALSE, ctrlKey |-> FALSE]

\* no result shown in Quick Look
NoResult == "none"

\* the app with nothing shown over the results
PlainUi ==
    [showQuickLook |-> FALSE, showContextMenu |-> FALSE, showSettings |-> FALSE,
     showSuggestions |-> FALSE, isSearchFocused |-> FALSE, suggestions |-> <<>>,
     quickLookData |-> NoResult]

\* MultiSelect and KeyboardNavigation as their constructors leave them, on
\* a page where no key has been pressed
KeysIdle ==
    /\ selectedItems = <<>>
    /\ resultIndex = -1
    /\ suggestionIndex = -1
    /\ isMetaKey = "metaKey"
    /\ appUi = PlainUi
    /\ inputFocused = FALSE
    /\ opened = <<>>
    /\ location = PageUrl
    /\ appCalls = <<>>
    /\ lastKey = NoKey
    /\ listenerOrder = "MultiSelect"

PageIdle ==
    /\ KeysIdle
    /\ tabs = <<>>
    /\ tabObjects = <<>>
    /\ activeTabId = NoTab
    /\ nextTabId = 1
    /\ app = FreshApp
    /\ scrollY = 0
    /\ scrollTimers = <<>>
    /\ lastCalls = <<>>
    /\ userScrolled = FALSE
    /\ storage = NoItem

elsewhere == <<bodyUsed, pageState>>
Elsewhere == UNCHANGED elsewhere
ElsewhereIdle == bodyUsed = FALSE /\ PageIdle

\* controller.signal.aborted
aborted == controller \in abortedSignals

\* new AbortController() handing out one controller for all attempts
NewControllerShared == <<0, 0>>

\* new AbortController(): an object that did not exist before
NewController == <<self, httpAttempts + 1>>

NoController == <<0, 0>>

\* the fields of the client
config == <<baseUrl, timeout, maxRetries, enableRetry>>

\* an operation that takes one retry off this.maxRetries
ConfigRetriesLowered ==
    /\ maxRetries' = IF maxRetries > 1 THEN maxRetries - 1 ELSE maxRetries
    /\ UNCHANGED <<baseUrl, timeout, enableRetry>>

\* no operation of a client assigns a field of this
ConfigKept == UNCHANGED config

\* what search and every step of _request leave alone
SharedFrame ==
    /\ ConfigKept
    /\ UNCHANGED <<argument, options, wrapperArgs, constructorArgs, self, other>>
    /\ Elsewhere

\* what the steps after the first leave alone: url is a constant
Frame == SharedFrame /\ UNCHANGED url

\* a thrown value that is not a WholphinAPIError
JsError(name) ==
    [name |-> name, message |-> "", status |-> NoStatus, details |-> NoDetails,
     isRetryable |-> FALSE]

\* let lastError; (and the value thrown by "throw lastError" when it was never set)
UndefinedValue == JsError("undefined")

Pending == [kind |-> "pending", value |-> NoDetails, error |-> UndefinedValue]
Returned(v) == [kind |-> "returned", value |-> v, error |-> UndefinedValue]
Raised(e) == [kind |-> "raised", value |-> NoDetails, error |-> e]

\* MaxAttempts not reading enableRetry
MaxAttemptsIgnoringFlag == maxRetries

\* const maxAttempts = this.enableRetry ? this.maxRetries : 1
MaxAttempts == IF enableRetry THEN maxRetries ELSE 1

\* the state of a search call that is not the current one
NoCall ==
    [argument |-> "undefined", options |-> DefaultRequest, pc |-> "none",
     attempt |-> 0, lastError |-> UndefinedValue, timer |-> "none",
     controller |-> NoController, response |-> NoResponse, httpAttempts |-> 0,
     url |-> NoUrl, fetchLog |-> <<>>, attemptLog |-> <<>>, delays |-> <<>>,
     outcome |-> Pending]

\* no call of search has been made
CallNotStarted ==
    /\ attempt = 0
    /\ lastError = UndefinedValue
    /\ timer = "none"
    /\ controller = NoController
    /\ abortedSignals = {}
    /\ response = NoResponse
    /\ httpAttempts = 0
    /\ url = NoUrl
    /\ fetchLog = <<>>
    /\ attemptLog = <<>>
    /\ delays = <<>>
    /\ outcome = Pending
    /\ self = 1
    /\ other = NoCall

\* a constructed client and one search call about to be made. Validation
\* reads no configuration: every request is tried on a client with retry
\* disabled, the plain requests on every configuration
Init ==
    /\ baseUrl = API_BASE_URL
    /\ timeout = DEFAULT_TIMEOUT
    /\ constructorArgs = NoConstructorArgs
    /\ enableRetry \in BOOLEAN
    /\ maxRetries \in MaxRetriesValues
    /\ options \in AllRequests
    /\ options \in PlainRequests \/ (~enableRetry /\ maxRetries = MAX_RETRY_ATTEMPTS)
    /\ argument \in {"object", "undefined", "null"}
    /\ argument # "object" =>
           /\ options = DefaultRequest
           /\ ~enableRetry /\ maxRetries = MAX_RETRY_ATTEMPTS
    /\ pc = "idle"
    /\ CallNotStarted
    /\ ElsewhereIdle
    /\ wrapperArgs = NoWrapper

(***************************************************************************)
(* Steps of _request                                                       *)
(***************************************************************************)
\* Throw raising lastError in place of the error at hand
ThrowLastError(e) ==
    /\ pc' = "done"
    /\ outcome' = Raised(lastError)
    /\ UNCHANGED <<attempt, lastError, delays>>

\* an error leaves _request and search
Throw(e) ==
    /\ pc' = "done"
    /\ outcome' = Raised(e)
    /\ UNCHANGED <<attempt, lastError, delays>>

\* Backoff waiting two delays
BackoffTwice(e, jitter) ==
    /\ pc' = "delay"
    /\ lastError' = e
    /\ delays' = delays \o <<CalculateRetryDelay(attempt, jitter),
                             CalculateRetryDelay(attempt, jitter)>>
    /\ UNCHANGED <<attempt, outcome>>

\* lastError = e; await this._delay(this._calculateRetryDelay(attempt))
Backoff(e, jitter) ==
    /\ pc' = "delay"
    /\ lastError' = e
    /\ delays' = Append(delays, CalculateRetryDelay(attempt, jitter))
    /\ UNCHANGED <<attempt, outcome>>

\* Catch rethrowing every WholphinAPIError, retryable or not
CatchRethrowApiErrors(e, jitter) ==
    IF e.name = "WholphinAPIError"
    THEN Throw(e)
    ELSE LET networkError ==
                 WholphinAPIError("Network error", NoStatus, ErrorObject(e.name), TRUE)
         IN  IF attempt = MaxAttempts - 1
             THEN Throw(networkError)
             ELSE Backoff(networkError, jitter)

\* the catch block of the loop body
Catch(e, jitter) ==
    IF e.name = "WholphinAPIError"
    THEN IF ~e.isRetryable \/ attempt = MaxAttempts - 1
         THEN Throw(e)
         ELSE Backoff(e, jitter)
    ELSE LET networkError ==
                 WholphinAPIError("Network error", NoStatus, ErrorObject(e.name), TRUE)
         IN  IF attempt = MaxAttempts - 1
             THEN Throw(networkError)
             ELSE Backoff(networkError, jitter)

\* the loop test with the counter at k, then the call of fetch in
\* _fetchWithTimeout, or "throw lastError" after the loop
LoopTest(k, u) ==
    /\ attempt' = k
    /\ IF k < MaxAttempts
       THEN /\ pc' = "fetch"
            /\ httpAttempts' = httpAttempts + 1
            /\ fetchLog' = Append(fetchLog, [method |-> "GET", url |-> u])
            /\ timer' = "armed"
            /\ controller' = NewController
            /\ UNCHANGED abortedSignals
            /\ response' = NoResponse
            /\ UNCHANGED outcome
       ELSE /\ pc' = "done"
            /\ outcome' = Raised(lastError)
            /\ UNCHANGED <<httpAttempts, fetchLog, timer, controller, abortedSignals, response>>
    /\ UNCHANGED <<lastError, delays, attemptLog>>

\* search(options): validation, then _request up to its first await
Search ==
    /\ pc = "idle"
    /\ LET errors == ValidationErrors(options)
       IN  IF argument # "object"
           THEN \* options.q on undefined or null: a TypeError
                /\ pc' = "done"
                /\ outcome' = Raised(JsError("TypeError"))
                /\ UNCHANGED <<attempt, lastError, timer, controller, abortedSignals, response,
                               httpAttempts, fetchLog, attemptLog, delays, url>>
           ELSE IF errors # <<>>
           THEN /\ pc' = "done"
                /\ outcome' =
                       Raised(WholphinAPIError3("Validation failed", NoStatus,
                                                [kind |-> "errors", v |-> errors]))
                /\ UNCHANGED <<attempt, lastError, timer, controller, abortedSignals, response,
                               httpAttempts, fetchLog, attemptLog, delays, url>>
           ELSE LET u == RequestUrl(baseUrl, SearchEndpoint, SearchParams(options))
                IN  url' = u /\ LoopTest(0, u)
    /\ SharedFrame

\* clearTimeout(timeoutId) leaving the timer as it is
ClearTimeoutNoop(t) == t

\* clearTimeout(timeoutId): a pending timer is cancelled, a timer that has
\* fired stays as it is
ClearTimeout(t) == IF t = "armed" THEN "cleared" ELSE t

\* fetch resolves with a response before the timer fires
FetchResolves(r) ==
    /\ pc = "fetch" /\ ~aborted
    /\ timer' = ClearTimeout(timer)
    /\ response' = r
    /\ attemptLog' = Append(attemptLog, [how |-> "response", status |-> r.status])
    /\ pc' = IF ~Ok(r) THEN "errorBody"
             ELSE IF ~IsJsonContentType(r.contentType) THEN "textBody"
             ELSE "jsonBody"
    /\ UNCHANGED <<attempt, lastError, controller, abortedSignals, httpAttempts, fetchLog, delays, outcome>>
    /\ Frame

\* fetch rejects (a network failure) before the timer fires
FetchRejects(jitter) ==
    /\ pc = "fetch" /\ ~aborted
    /\ timer' = ClearTimeout(timer)
    /\ attemptLog' = Append(attemptLog, [how |-> "network", status |-> NoStatus])
    /\ Catch(JsError("TypeError"), jitter)
    /\ UNCHANGED <<controller, abortedSignals, response, httpAttempts, fetchLog>>
    /\ Frame

\* the timer of _fetchWithTimeout fires: controller.abort()
TimeoutFires ==
    /\ timer = "armed"
    /\ timer' = "fired"
    /\ abortedSignals' = abortedSignals \cup {controller}
    /\ UNCHANGED <<pc, controller, attempt, lastError, response, httpAttempts, fetchLog, attemptLog,
                   delays, outcome>>
    /\ Frame

\* the aborted fetch rejects with an AbortError
FetchAborted(jitter) ==
    /\ pc = "fetch" /\ aborted
    /\ timer' = ClearTimeout(timer)
    /\ attemptLog' = Append(attemptLog, [how |-> "timeout", status |-> NoStatus])
    /\ Catch(WholphinAPIError("Request timeout", NoStatus, ErrorObject("AbortError"),
                              TRUE), jitter)
    /\ UNCHANGED <<controller, abortedSignals, response, httpAttempts, fetchLog>>
    /\ Frame

\* the body of a non-success response has been read
ErrorBodyRead(jitter) ==
    /\ pc = "errorBody"
    /\ LET read == IF IsJsonContentType(response.contentType)
                   THEN ReadJson(response.body)
                   ELSE ReadText(response.body)
           errorDetails == IF read.ok THEN read.value
                           ELSE TextDetails("Unable to parse error response")
           isRetryable == IsRetryableError(response.status)
           error == WholphinAPIError("API request failed", response.status,
                                     errorDetails, isRetryable)
       IN  IF ~isRetryable \/ attempt = MaxAttempts - 1
           THEN Catch(error, jitter)
           ELSE Backoff(error, jitter)
    /\ UNCHANGED <<timer, controller, abortedSignals, response, httpAttempts, fetchLog, attemptLog>>
    /\ Frame

\* the text of a success response that is not JSON has been read
TextBodyRead(jitter) ==
    /\ pc = "textBody"
    /\ LET read == ReadText(response.body)
       IN  IF read.ok
           THEN Catch(WholphinAPIError3("Invalid response format", response.status,
                                        read.value), jitter)
           ELSE Catch(JsError(read.value.v), jitter)
    /\ UNCHANGED <<timer, controller, abortedSignals, response, httpAttempts, fetchLog, attemptLog>>
    /\ Frame

\* the body of a success response with a JSON content type has been read
JsonBodyRead(jitter) ==
    /\ pc = "jsonBody"
    /\ LET read == ReadJson(response.body)
       IN  IF read.ok
           THEN /\ pc' = "done"
                /\ outcome' = Returned(read.value)
                /\ UNCHANGED <<attempt, lastError, delays>>
           ELSE Catch(JsError(read.value.v), jitter)
    /\ UNCHANGED <<timer, controller, abortedSignals, response, httpAttempts, fetchLog, attemptLog>>
    /\ Frame

\* a delay whose promise never resolves
DelayNeverElapses == pc = "delay" /\ UNCHANGED vars

\* the backoff delay has elapsed: attempt++ and the loop test
DelayElapsed ==
    /\ pc = "delay"
    /\ LoopTest(attempt + 1, url)
    /\ Frame

Next ==
    \/ Search
    \/ \E r \in Responses : FetchResolves(r)
    \/ \E jitter \in JitterValues : FetchRejects(jitter)
    \/ TimeoutFires
    \/ \E jitter \in JitterValues : FetchAborted(jitter)
    \/ \E jitter \in JitterValues : ErrorBodyRead(jitter)
    \/ \E jitter \in JitterValues : TextBodyRead(jitter)
    \/ \E jitter \in JitterValues : JsonBodyRead(jitter)
    \/ DelayElapsed

Spec == Init /\ [][Next]_vars

(***************************************************************************)
(* The same call when the platform keeps its promises: a call of search    *)
(* runs, a fetch in flight settles (or its timer fires), a body read       *)
(* finishes, a delay elapses                                               *)
(***************************************************************************)
FetchSettles ==
    \/ \E r \in Responses : FetchResolves(r)
    \/ \E jitter \in JitterValues : FetchRejects(jitter)
    \/ TimeoutFires
    \/ \E jitter \in JitterValues : FetchAborted(jitter)

BodyReadFinishes ==
    \E jitter \in JitterValues :
        ErrorBodyRead(jitter) \/ TextBodyRead(jitter) \/ JsonBodyRead(jitter)

Fairness ==
    /\ WF_vars(Search)
    /\ WF_vars(FetchSettles)
    /\ WF_vars(BodyReadFinishes)
    /\ WF_vars(DelayElapsed)

\* one call with a valid request on a client that retries
InitFair ==
    /\ baseUrl = API_BASE_URL
    /\ timeout = DEFAULT_TIMEOUT
    /\ constructorArgs = NoConstructorArgs
    /\ wrapperArgs = NoWrapper
    /\ enableRetry \in BOOLEAN
    /\ maxRetries \in 0..FairRetries
    /\ argument = "object"
    /\ options = DefaultRequest
    /\ pc = "idle"
    /\ CallNotStarted
    /\ ElsewhereIdle

SpecFair == InitFair /\ [][Next]_vars /\ Fairness

(***************************************************************************)
(* Two search calls in flight on one client. The variables of a call       *)
(* describe the call that takes the next step; Switch makes the other call *)
(* that one                                                                *)
(***************************************************************************)
\* the locals of the current call
CallState ==
    [argument |-> argument, options |-> options, pc |-> pc, attempt |-> attempt,
     lastError |-> lastError, timer |-> timer, controller |-> controller,
     response |-> response, httpAttempts |-> httpAttempts, url |-> url,
     fetchLog |-> fetchLog, attemptLog |-> attemptLog, delays |-> delays,
     outcome |-> outcome]

\* the request of the second call
OtherRequest == [DefaultRequest EXCEPT !.q = Str(<<"b">>)]

\* what the server answers while two calls are in flight
ConcurrentResponses ==
    {[status |-> 200, contentType |-> "application/json", body |-> BodyResults],
     [status |-> 200, contentType |-> "text/html", body |-> BodyHtml],
     [status |-> 404, contentType |-> "text/html", body |-> BodyHtml],
     [status |-> 503, contentType |-> "text/html", body |-> BodyHtml]}

InitTwoCalls ==
    /\ baseUrl = API_BASE_URL
    /\ timeout = DEFAULT_TIMEOUT
    /\ enableRetry = TRUE
    /\ maxRetries = ConcurrentRetries
    /\ constructorArgs = NoConstructorArgs
    /\ wrapperArgs = NoWrapper
    /\ argument = "object"
    /\ options = DefaultRequest
    /\ pc = "idle"
    /\ attempt = 0
    /\ lastError = UndefinedValue
    /\ timer = "none"
    /\ controller = NoController
    /\ abortedSignals = {}
    /\ response = NoResponse
    /\ httpAttempts = 0
    /\ url = NoUrl
    /\ fetchLog = <<>>
    /\ attemptLog = <<>>
    /\ delays = <<>>
    /\ outcome = Pending
    /\ self = 1
    /\ other = [NoCall EXCEPT !.argument = "object", !.options = OtherRequest,
                              !.pc = "idle"]
    /\ ElsewhereIdle

\* the event loop runs the other call next
Switch ==
    /\ other # NoCall
    /\ other' = CallState
    /\ self' = 3 - self
    /\ argument' = other.argument
    /\ options' = other.options
    /\ pc' = other.pc
    /\ attempt' = other.attempt
    /\ lastError' = other.lastError
    /\ timer' = other.timer
    /\ controller' = other.controller
    /\ response' = other.response
    /\ httpAttempts' = other.httpAttempts
    /\ url' = other.url
    /\ fetchLog' = other.fetchLog
    /\ attemptLog' = other.attemptLog
    /\ delays' = other.delays
    /\ outcome' = other.outcome
    /\ UNCHANGED <<config, abortedSignals, wrapperArgs, constructorArgs>>
    /\ Elsewhere

NextTwoCalls ==
    \/ Search
    \/ \E r \in ConcurrentResponses : FetchResolves(r)
    \/ FetchRejects(0)
    \/ TimeoutFires
    \/ FetchAborted(0)
    \/ ErrorBodyRead(0)
    \/ TextBodyRead(0)
    \/ JsonBodyRead(0)
    \/ DelayElapsed
    \/ Switch

SpecTwoCalls == InitTwoCalls /\ [][NextTwoCalls]_vars

(***************************************************************************)
(* The client of src/js/api.js: search and _request, without validation,   *)
(* timeout or retry                                                        *)
(***************************************************************************)
\* new WholphinAPIError(message, status, details) of src/js/api.js, which
\* has no retryable flag
ApiError(message, status, details) ==
    [name |-> "WholphinAPIError", message |-> message, status |-> status,
     details |-> details, isRetryable |-> FALSE]

\* the params object search of src/js/api.js builds: q is not trimmed
ApiSearchParams(o) ==
    << <<(<<"q">>), o.q>>,
       <<(<<"p", "a", "g", "e">>), o.page>>,
       <<(<<"t", "y", "p", "e">>), o.type>>,
       <<(<<"s", "a", "f", "e", "s", "e", "a", "r", "c", "h">>), o.safesearch>>,
       <<(<<"l", "a", "n", "g">>), o.lang>> >>

\* a second read of a body: the stream was consumed by the first read
ReadUsedBody == [ok |-> FALSE, value |-> ErrorObject("TypeError")]

\* response.text() on a response whose bodyUsed is used
ReadBodyText(body, used) == IF used THEN ReadUsedBody ELSE ReadText(body)

\* the requests the client of src/js/api.js is tried with
ApiRequests ==
    {o \in AllRequests :
        /\ o.q \in {Undefined, Str(<<>>), Str(<<"a">>), Str(<<" ", "a">>), Num(42)}
        /\ o.page \in {Undefined, Null, Num(PAGE_MIN)}
        /\ o.safesearch = Undefined
        /\ o.lang \in {Undefined, Str(<<"j", "a">>)}
        /\ o.type = Undefined}

InitApi ==
    /\ baseUrl = API_BASE_URL
    /\ timeout = DEFAULT_TIMEOUT
    /\ enableRetry = FALSE
    /\ maxRetries = MAX_RETRY_ATTEMPTS
    /\ constructorArgs = NoConstructorArgs
    /\ wrapperArgs = NoWrapper
    /\ argument \in {"object", "undefined", "null"}
    /\ options \in ApiRequests
    /\ argument # "object" => options = DefaultRequest
    /\ pc = "idle"
    /\ CallNotStarted
    /\ bodyUsed = FALSE
    /\ PageIdle

\* what the steps of the client of src/js/api.js leave alone
ApiFrame ==
    /\ UNCHANGED <<config, argument, options, wrapperArgs, constructorArgs, self,
                   other, attempt, lastError, timer, controller, abortedSignals,
                   delays>>
    /\ PageKept

\* the outer catch of _request: a WholphinAPIError is rethrown, anything
\* else becomes a "Network error" without status
ApiCatch(e) ==
    /\ pc' = "done"
    /\ outcome' = IF e.name = "WholphinAPIError"
                  THEN Raised(e)
                  ELSE Raised(ApiError("Network error", NoStatus, ErrorObject(e.name)))

\* search(options) of src/js/api.js up to the call of fetch
ApiSearch ==
    /\ pc = "idle"
    /\ IF argument # "object" \/ Falsy(options.q)
       THEN /\ pc' = "done"
            /\ outcome' = Raised(ApiError("Search query (q) is required", NoStatus,
                                          NoDetails))
            /\ UNCHANGED <<url, fetchLog, httpAttempts>>
       ELSE LET u == baseUrl \o SearchEndpoint \o BuildQueryString(ApiSearchParams(options))
            IN  /\ pc' = "fetch"
                /\ url' = u
                /\ fetchLog' = Append(fetchLog, [method |-> "GET", url |-> u])
                /\ httpAttempts' = httpAttempts + 1
                /\ UNCHANGED outcome
    /\ UNCHANGED <<response, attemptLog, bodyUsed>>
    /\ ApiFrame

\* fetch resolves with a response
ApiFetchResolves(r) ==
    /\ pc = "fetch"
    /\ response' = r
    /\ bodyUsed' = FALSE
    /\ attemptLog' = Append(attemptLog, [how |-> "response", status |-> r.status])
    /\ pc' = IF Ok(r) THEN "jsonBody" ELSE "errorBody"
    /\ UNCHANGED <<url, fetchLog, httpAttempts, outcome>>
    /\ ApiFrame

\* fetch rejects: no response was received
ApiFetchRejects ==
    /\ pc = "fetch"
    /\ attemptLog' = Append(attemptLog, [how |-> "network", status |-> NoStatus])
    /\ ApiCatch(JsError("TypeError"))
    /\ UNCHANGED <<url, fetchLog, httpAttempts, response, bodyUsed>>
    /\ ApiFrame

\* errorDetails = await response.json() for a response that is not ok
ApiErrorJsonRead ==
    /\ pc = "errorBody"
    /\ bodyUsed' = TRUE
    /\ LET read == ReadJson(response.body)
       IN  IF read.ok
           THEN ApiCatch(ApiError("API request failed", response.status, read.value))
           ELSE pc' = "errorText" /\ UNCHANGED outcome
    /\ UNCHANGED <<url, fetchLog, httpAttempts, response, attemptLog>>
    /\ ApiFrame

\* catch { errorDetails = await response.text() }
ApiErrorTextRead ==
    /\ pc = "errorText"
    /\ LET read == ReadBodyText(response.body, bodyUsed)
       IN  IF read.ok
           THEN ApiCatch(ApiError("API request failed", response.status, read.value))
           ELSE ApiCatch(JsError(read.value.v))
    /\ UNCHANGED <<url, fetchLog, httpAttempts, response, attemptLog, bodyUsed>>
    /\ ApiFrame

\* return await response.json()
ApiJsonRead ==
    /\ pc = "jsonBody"
    /\ bodyUsed' = TRUE
    /\ LET read == ReadJson(response.body)
       IN  IF read.ok
           THEN pc' = "done" /\ outcome' = Returned(read.value)
           ELSE ApiCatch(JsError(read.value.v))
    /\ UNCHANGED <<url, fetchLog, httpAttempts, response, attemptLog>>
    /\ ApiFrame

NextApi ==
    \/ ApiSearch
    \/ \E r \in Responses : ApiFetchResolves(r)
    \/ ApiFetchRejects
    \/ ApiErrorJsonRead
    \/ ApiErrorTextRead
    \/ ApiJsonRead

SpecApi == InitApi /\ [][NextApi]_vars

(***************************************************************************)
(* The constructor                                                         *)
(***************************************************************************)
InitConstructor ==
    /\ constructorArgs \in [baseUrl : BaseUrlValues, options : ConstructorOptions]
    /\ pc = "new"
    /\ baseUrl = NoClient
    /\ timeout = 0
    /\ maxRetries = 0
    /\ enableRetry = FALSE
    /\ argument = "undefined"
    /\ options = DefaultRequest
    /\ CallNotStarted
    /\ ElsewhereIdle
    /\ wrapperArgs = NoWrapper

\* constructor(baseUrl = API_BASE_URL, options = {})
Construct ==
    /\ pc = "new"
    /\ LET given == IF constructorArgs.baseUrl = Undefined
                    THEN Str(API_BASE_URL)
                    ELSE constructorArgs.baseUrl
           o == constructorArgs.options
           thrown == ValidateUrl(StringOf(given))
       IN  IF thrown # NothingThrown
           THEN /\ pc' = "noClient"
                /\ outcome' = Raised(thrown)
                /\ UNCHANGED config
           ELSE /\ pc' = "idle"
                /\ baseUrl' = given.s
                /\ timeout' = IF Falsy(Get(o, "timeout"))
                              THEN DEFAULT_TIMEOUT
                              ELSE Get(o, "timeout").n
                /\ maxRetries' = IF Get(o, "maxRetries") # Undefined
                                 THEN Get(o, "maxRetries").n
                                 ELSE MAX_RETRY_ATTEMPTS
                /\ enableRetry' = (Get(o, "enableRetry") # JsFalse)
                /\ UNCHANGED outcome
    /\ UNCHANGED <<argument, options, attempt, lastError, timer, controller, abortedSignals, response,
                   httpAttempts, fetchLog, url, attemptLog, delays, wrapperArgs,
                   constructorArgs, self, other>>
    /\ Elsewhere

NextConstructor == Construct

SpecConstructor == InitConstructor /\ [][NextConstructor]_vars

(***************************************************************************)
(* The convenience wrappers, up to their call of search                    *)
(***************************************************************************)
InitWrappers ==
    /\ baseUrl = API_BASE_URL
    /\ timeout = DEFAULT_TIMEOUT
    /\ constructorArgs = NoConstructorArgs
    /\ wrapperArgs \in [name : Wrappers, query : WrapperQueries,
                         options : WrapperOptions]
    /\ pc = "wrapper"
    /\ enableRetry = TRUE
    /\ maxRetries = MAX_RETRY_ATTEMPTS
    /\ argument = "undefined"
    /\ options = DefaultRequest
    /\ CallNotStarted
    /\ ElsewhereIdle

\* searchWeb(query, options = {}) and the five others: the object built
\* is the argument of search
CallWrapper ==
    /\ pc = "wrapper"
    /\ LET request == WrapperRequest(wrapperArgs.name, wrapperArgs.query,
                                      wrapperArgs.options)
       IN  options' = [q |-> Get(request, "q"), page |-> Get(request, "page"),
                       safesearch |-> Get(request, "safesearch"),
                       lang |-> Get(request, "lang"), type |-> Get(request, "type")]
    /\ argument' = "object"
    /\ pc' = "idle"
    /\ ConfigKept
    /\ UNCHANGED <<attempt, lastError, timer, controller, abortedSignals, response,
                   httpAttempts, fetchLog, url, attemptLog, delays, outcome,
                   wrapperArgs, constructorArgs, self, other>>
    /\ Elsewhere

NextWrappers == CallWrapper

SpecWrappers == InitWrappers /\ [][NextWrappers]_vars

(***************************************************************************)
(* TabManager of src/js/advanced-features.js                               *)
(***************************************************************************)
\* the client is constructed and no call is running
ClientIdle ==
    /\ baseUrl = API_BASE_URL
    /\ timeout = DEFAULT_TIMEOUT
    /\ enableRetry = TRUE
    /\ maxRetries = MAX_RETRY_ATTEMPTS
    /\ constructorArgs = NoConstructorArgs
    /\ wrapperArgs = NoWrapper
    /\ argument = "undefined"
    /\ options = DefaultRequest
    /\ pc = "idle"
    /\ CallNotStarted
    /\ bodyUsed = FALSE

\* what the components of the page leave alone; TabManager does not use
\* localStorage
ClientKept ==
    UNCHANGED <<storage, keyState, config, argument, options, pc, attempt, lastError, timer,
                controller, abortedSignals, response, httpAttempts, url, fetchLog,
                attemptLog, delays, outcome, wrapperArgs, constructorArgs, self,
                other, bodyUsed>>

\* bound: the number of tabs ever created
MaxTabs == 3
\* bound: the number of scroll restorations waiting for their 100 ms
MaxScrollTimers == 2

\* '新規検索'
DefaultTitle == <<"N", "e", "w">>
TITLE_LENGTH == 20

\* the titles createTab is given: none or '' (both falsy), and a title
TabTitles == {<<>>}

\* the positions the window can be scrolled to
Scrolls == {0, 100}

\* the states the app puts itself in by searching and paging
AppStates ==
    {FreshApp,
     [query |-> <<"a">>, currentType |-> "web", results |-> <<"r1">>,
      currentPage |-> 1, searchPerformed |-> TRUE],
     [query |-> <<"b">>, currentType |-> "image", results |-> <<"r2", "r3">>,
      currentPage |-> 2, searchPerformed |-> TRUE]}

\* the tab ids the calls are given: the ids of tabs, 0 and one never used
TabIds == 0..(MaxTabs + 1)

IdsOf(list) == {list[i] : i \in DOMAIN list}

\* the object literal of createTab
NewTab(id, title) ==
    [id |-> id, title |-> IF title = <<>> THEN DefaultTitle ELSE title,
     query |-> <<>>, type |-> "web", results |-> <<>>, page |-> 1,
     scrollPosition |-> 0]

\* this.tabs.findIndex(t => t.id === tabId), counted from 0
FindIndex(list, tabId) ==
    IF tabId \in IdsOf(list)
    THEN (CHOOSE i \in DOMAIN list : list[i] = tabId) - 1
    ELSE -1

\* list[index], index counted from 0
At(list, index) == list[index + 1]

\* list.splice(index, 1)
Splice(list, index) ==
    [i \in 1..(Len(list) - 1) |-> IF i <= index THEN list[i] ELSE list[i + 1]]

\* the title switchTab gives a tab that has a query
TitleOf(query) ==
    IF Len(query) > TITLE_LENGTH
    THEN SubSeq(query, 1, TITLE_LENGTH) \o <<".", ".", ".">>
    ELSE query

\* "Save current tab state": the tab objects after the block
SaveNothing(list, objects) == objects
SaveCurrentTab(list, objects) ==
    IF activeTabId # NoTab /\ activeTabId \in IdsOf(list)
    THEN [objects EXCEPT ![activeTabId] =
              [@ EXCEPT !.query = app.query, !.type = app.currentType,
                        !.results = app.results, !.page = app.currentPage,
                        !.scrollPosition = scrollY]]
    ELSE objects

\* "Load tab state": the app after the block
LoadTab(tab) ==
    [query |-> tab.query, currentType |-> tab.type, results |-> tab.results,
     currentPage |-> tab.page, searchPerformed |-> Len(tab.results) > 0]

\* switchTab(tabId) on the tab list and tab objects given: the tab objects,
\* active tab, app and pending timers it leaves
SwitchTabOn(list, objects, tabId) ==
    IF tabId \notin IdsOf(list)
    THEN [objects |-> objects, active |-> activeTabId, app |-> app,
          timers |-> scrollTimers]
    ELSE LET saved == SaveCurrentTab(list, objects)
             tab == saved[tabId]
         IN  [objects |-> IF tab.query # <<>>
                          THEN [saved EXCEPT ![tabId].title = TitleOf(tab.query)]
                          ELSE saved,
              active |-> tabId,
              app |-> LoadTab(tab),
              timers |-> Append(scrollTimers, tabId)]

\* the state a call of switchTab leaves
Switched(result) ==
    /\ tabObjects' = result.objects
    /\ activeTabId' = result.active
    /\ app' = result.app
    /\ scrollTimers' = result.timers
    /\ userScrolled' = IF result.timers # scrollTimers THEN FALSE ELSE userScrolled

\* the query, type, results and page a tab object stores
NothingStored == [query |-> <<>>, type |-> "none", results |-> <<>>, page |-> 0]
StoredState(tabId) ==
    IF tabId \in DOMAIN tabObjects
    THEN [query |-> tabObjects[tabId].query, type |-> tabObjects[tabId].type,
          results |-> tabObjects[tabId].results, page |-> tabObjects[tabId].page]
    ELSE NothingStored

\* the call switches back to the tab that the call before it, a switchTab,
\* left, the app not having changed in between
SwitchesBack(op, arg) ==
    /\ op = "switchTab"
    /\ lastCalls # <<>>
    /\ lastCalls[1].op = "switchTab"
    /\ lastCalls[1].active = arg
    /\ lastCalls[1].arg = activeTabId
    /\ arg # activeTabId

\* the record of a call: what was called, and the active tab, the app and
\* the stored state of the tab named that the call found; turn tells a call
\* from the one before it
Call(op, arg) ==
    [op |-> op, arg |-> arg, active |-> activeTabId, app |-> app,
     stored |-> StoredState(arg), back |-> SwitchesBack(op, arg),
     turn |-> IF lastCalls = <<>> THEN 0 ELSE 1 - lastCalls[1].turn]
Recorded(call) == lastCalls' = <<call>>

\* the state after new TabManager(app): init() has created and activated
\* the first tab
InitTabs ==
    /\ ClientIdle
    /\ tabs = <<1>>
    /\ tabObjects = <<NewTab(1, DefaultTitle)>>
    /\ activeTabId = 1
    /\ nextTabId = 2
    /\ app = LoadTab(NewTab(1, DefaultTitle))
    /\ scrollY = 0
    /\ scrollTimers = <<1>>
    /\ lastCalls = <<>>
    /\ userScrolled = FALSE
    /\ storage = NoItem
    /\ KeysIdle

CreateTab(title, activate) ==
    /\ nextTabId <= MaxTabs
    /\ Len(scrollTimers) < MaxScrollTimers
    /\ LET tab == NewTab(nextTabId, title)
           list == Append(tabs, tab.id)
           objects == Append(tabObjects, tab)
       IN  /\ nextTabId' = nextTabId + 1
           /\ tabs' = list
           /\ IF activate \/ Len(list) = 1
              THEN Switched(SwitchTabOn(list, objects, tab.id))
              ELSE /\ tabObjects' = objects
                   /\ UNCHANGED <<activeTabId, app, scrollTimers, userScrolled>>
    /\ Recorded(Call("createTab", nextTabId))
    /\ UNCHANGED scrollY
    /\ ClientKept

SwitchTab(tabId) ==
    /\ Len(scrollTimers) < MaxScrollTimers
    /\ Switched(SwitchTabOn(tabs, tabObjects, tabId))
    /\ Recorded(Call("switchTab", tabId))
    /\ UNCHANGED <<tabs, nextTabId, scrollY>>
    /\ ClientKept

\* Math.max(0, index - 1)
NewIndexFirst(index) == 0
NewIndex(index) == IF index - 1 > 0 THEN index - 1 ELSE 0

\* this.activeTabId === tabId
IsNeverActive(tabId) == FALSE
IsActive(tabId) == activeTabId = tabId

CloseTab(tabId) ==
    /\ Len(scrollTimers) < MaxScrollTimers
    /\ LET index == FindIndex(tabs, tabId)
       IN  IF index = -1 \/ Len(tabs) = 1
           THEN UNCHANGED <<tabs, tabObjects, activeTabId, app, scrollTimers,
                            userScrolled>>
           ELSE LET list == Splice(tabs, index)
                IN  /\ tabs' = list
                    /\ IF IsActive(tabId)
                       THEN Switched(SwitchTabOn(list, tabObjects,
                                                 At(list, NewIndex(index))))
                       ELSE UNCHANGED <<tabObjects, activeTabId, app, scrollTimers,
                                        userScrolled>>
    /\ Recorded(Call("closeTab", tabId))
    /\ UNCHANGED <<nextTabId, scrollY>>
    /\ ClientKept

\* the callback of setTimeout in switchTab: window.scrollTo(0,
\* tab.scrollPosition), tab being the object the call of switchTab found
ScrollTimerFires ==
    /\ scrollTimers # <<>>
    /\ scrollY' = tabObjects[Head(scrollTimers)].scrollPosition
    /\ scrollTimers' = Tail(scrollTimers)
    /\ UNCHANGED <<tabs, tabObjects, activeTabId, nextTabId, app, lastCalls,
                   userScrolled>>
    /\ ClientKept

\* the user scrolls the window
WindowScrolls(y) ==
    /\ y # scrollY
    /\ scrollY' = y
    /\ userScrolled' = TRUE
    /\ UNCHANGED <<tabs, tabObjects, activeTabId, nextTabId, app, scrollTimers,
                   lastCalls>>
    /\ ClientKept

\* the app searches, pages or changes the search type
AppChanges(a) ==
    /\ a # app
    /\ app' = a
    /\ lastCalls' = <<>>
    /\ UNCHANGED <<tabs, tabObjects, activeTabId, nextTabId, scrollY,
                   scrollTimers, userScrolled>>
    /\ ClientKept

NextTabs ==
    \/ \E title \in TabTitles, activate \in BOOLEAN : CreateTab(title, activate)
    \/ \E tabId \in TabIds : SwitchTab(tabId)
    \/ \E tabId \in TabIds : CloseTab(tabId)
    \/ ScrollTimerFires
    \/ \E a \in AppStates : AppChanges(a)

SpecTabs == InitTabs /\ [][NextTabs]_vars

\* the tabs on a page that the user scrolls and does not search on
NextScroll ==
    \/ \E title \in TabTitles, activate \in BOOLEAN : CreateTab(title, activate)
    \/ \E tabId \in TabIds : SwitchTab(tabId)
    \/ \E tabId \in TabIds : CloseTab(tabId)
    \/ ScrollTimerFires
    \/ \E y \in Scrolls : WindowScrolls(y)

SpecScroll == InitTabs /\ [][NextScroll]_vars

(***************************************************************************)
(* SearchHistory of src/js/advanced-features.js                            *)
(***************************************************************************)
\* this.maxItems
MaxItems == 20

\* bound: the number of distinct non-blank queries that are added
MaxQueries == 21
\* bound: the number of calls that add again or remove a stored query
MaxEdits == 1

\* Date.now()
Now == 0

\* the queries add and remove are given: "q1", "q2", ..., the last of them
\* the first with a space before it
Query(i) ==
    IF i = MaxQueries THEN <<" ", "q", "1">> ELSE <<"q">> \o DigitsOf(i)
BlankQueries == {<<>>, <<" ">>}
UnknownQuery == <<"x">>

\* JSON.stringify(history): the text of an array of objects; a key whose
\* value is undefined is left out
JsonStringify(history) ==
    [kind |-> "json",
     value |-> [i \in DOMAIN history |->
                   [query |-> history[i].query, timestamp |-> history[i].timestamp,
                    type |-> IF history[i].type = Undefined THEN Absent
                             ELSE history[i].type]]]

\* JSON.parse(data): a key the text lacks reads as undefined
JsonParse(data) ==
    [i \in DOMAIN data.value |->
        [query |-> data.value[i].query, timestamp |-> data.value[i].timestamp,
         type |-> IF data.value[i].type = Absent THEN Undefined
                  ELSE data.value[i].type]]

\* getAll()
GetAll == IF storage # NoItem THEN JsonParse(storage) ELSE <<>>

\* history.filter(item => item.query !== query)
KeepAll(history, query) == history
FilterOut(history, query) == SelectSeq(history, LAMBDA item : item.query # query)

\* history.slice(0, n)
SliceAll(history, n) == history
Slice(history, n) == SubSeq(history, 1, IF Len(history) < n THEN Len(history) ELSE n)

\* the number of calls so far that added again or removed a stored query
edits == IF lastCalls = <<>> THEN 0 ELSE lastCalls[1].edits

StoredQueries ==
    LET history == GetAll
    IN  {history[i].query : i \in DOMAIN history}

\* the first of the queries that is not stored
FreshQuery ==
    LET unused == {i \in 1..MaxQueries : Query(i) \notin StoredQueries}
    IN  Query(CHOOSE i \in unused : \A j \in unused : i <= j)

\* the newest and the oldest of the stored queries
KnownQueries ==
    LET history == GetAll
    IN  {history[i].query : i \in {1, Len(history)} \cap DOMAIN history}

\* what SearchHistory leaves alone
HistoryFrame ==
    /\ KeysKept
    /\ UNCHANGED <<tabs, tabObjects, activeTabId, nextTabId, app, scrollY,
                   scrollTimers, userScrolled>>
    /\ UNCHANGED <<config, argument, options, pc, attempt, lastError, timer,
                   controller, abortedSignals, response, httpAttempts, url, fetchLog,
                   attemptLog, delays, outcome, wrapperArgs, constructorArgs, self,
                   other, bodyUsed>>

\* new SearchHistory(app) on empty storage
InitHistory ==
    /\ ClientIdle
    /\ PageIdle

HistoryAdd(query, edit) ==
    /\ edits + edit <= MaxEdits
    /\ IF query = <<>> \/ Trim(query) = <<>>
       THEN UNCHANGED storage
       ELSE LET entry == [query |-> query, timestamp |-> Now,
                          type |-> Str(<<app.currentType>>)]
                history == FilterOut(GetAll, query)
            IN  storage' = JsonStringify(Slice(<<entry>> \o history, MaxItems))
    /\ lastCalls' = <<[op |-> "add", arg |-> query, edits |-> edits + edit]>>
    /\ HistoryFrame

HistoryRemove(query, edit) ==
    /\ edits + edit <= MaxEdits
    /\ storage' = JsonStringify(FilterOut(GetAll, query))
    /\ lastCalls' = <<[op |-> "remove", arg |-> query, edits |-> edits + edit]>>
    /\ HistoryFrame

HistoryClear ==
    /\ storage' = NoItem
    /\ lastCalls' = <<[op |-> "clear", arg |-> <<>>, edits |-> 0]>>
    /\ HistoryFrame

NextHistory ==
    \/ \E query \in {FreshQuery} \cup BlankQueries : HistoryAdd(query, 0)
    \/ \E query \in KnownQueries : HistoryAdd(query, 1)
    \/ \E query \in KnownQueries : HistoryRemove(query, 1)
    \/ HistoryRemove(UnknownQuery, 0)
    \/ HistoryClear

SpecHistory == InitHistory /\ [][NextHistory]_vars

(***************************************************************************)
(* MultiSelect of src/js/advanced-features.js and KeyboardNavigation of    *)
(* src/unnamed/part_000, both listening for keydown on the document        *)
(***************************************************************************)
\* the keys pressed
KeyNames == {"Enter", "Escape", "ArrowDown", "ArrowUp", " ", "k", "2"}

\* the keydown events: event.key, event.metaKey, event.ctrlKey; one modifier
\* at most is held, and "k" and "2" are pressed as shortcuts
KeyEvents ==
    {event \in [key : KeyNames, metaKey : BOOLEAN, ctrlKey : BOOLEAN] :
        /\ ~(event.metaKey /\ event.ctrlKey)
        /\ event.key \in {"k", "2"} => event.metaKey \/ event.ctrlKey}

\* app.suggestions
Suggestions == <<"s1", "s2">>

\* result.url
UrlOf(result) == <<"url", result>>

\* event[this.isMetaKey]
ModifierPressed(event) ==
    IF isMetaKey = "metaKey" THEN event.metaKey ELSE event.ctrlKey

\* parseInt(event.key) of a digit key
ParseInt(key) == (CHOOSE i \in DOMAIN Digits : Digits[i] = key) - 1

\* what a listener that does nothing leaves
Untouched ==
    [resultIndex |-> resultIndex, suggestionIndex |-> suggestionIndex,
     appUi |-> appUi, inputFocused |-> inputFocused, opened |-> <<>>,
     location |-> location, appCalls |-> <<>>]

\* focusSearch(): the search input is found and focused
FocusSearch == [Untouched EXCEPT !.inputFocused = TRUE]

\* handleEscape()
HandleEscapeAll ==
    [Untouched EXCEPT !.appUi.showQuickLook = FALSE,
                      !.appUi.showContextMenu = FALSE,
                      !.appUi.showSettings = FALSE]
HandleEscape ==
    IF appUi.showQuickLook THEN [Untouched EXCEPT !.appUi.showQuickLook = FALSE]
    ELSE IF appUi.showContextMenu
    THEN [Untouched EXCEPT !.appUi.showContextMenu = FALSE]
    ELSE IF appUi.showSettings THEN [Untouched EXCEPT !.appUi.showSettings = FALSE]
    ELSE [Untouched EXCEPT !.inputFocused = FALSE]

\* const types = ['web', 'image', 'video', 'news']
SearchTypes == <<"web", "image", "video", "news">>

\* switchTab(index) of KeyboardNavigation
KeySwitchTab(index) ==
    IF index >= 0 /\ index < Len(SearchTypes)
    THEN [Untouched EXCEPT !.appCalls = <<[method |-> "changeSearchType",
                                          arg |-> SearchTypes[index + 1]]>>]
    ELSE Untouched

\* navigateSuggestions(event)
NavigateSuggestions(event) ==
    LET suggestions == appUi.suggestions
        maxIndex == Len(suggestions) - 1
        moved == IF event.key \in {"ArrowDown", "Tab"}
                 THEN (IF suggestionIndex + 1 < maxIndex THEN suggestionIndex + 1
                       ELSE maxIndex)
                 ELSE IF event.key = "ArrowUp"
                 THEN (IF suggestionIndex - 1 > -1 THEN suggestionIndex - 1 ELSE -1)
                 ELSE suggestionIndex
    IN  IF event.key = "Enter" /\ moved >= 0
        THEN [Untouched EXCEPT !.suggestionIndex = -1,
                               !.appCalls = <<[method |-> "selectSuggestion",
                                               arg |-> suggestions[moved + 1]]>>]
        ELSE [Untouched EXCEPT !.suggestionIndex = moved]

\* navigateResults(direction)
NavigateResults(direction) ==
    LET maxIndex == Len(app.results) - 1
    IN  IF direction = "down"
        THEN [Untouched EXCEPT !.resultIndex =
                  IF resultIndex + 1 < maxIndex THEN resultIndex + 1 ELSE maxIndex]
        ELSE [Untouched EXCEPT !.resultIndex =
                  IF resultIndex - 1 > 0 THEN resultIndex - 1 ELSE 0]

\* openResult(newTab)
OpenResult(newTab) ==
    IF resultIndex < 0 \/ resultIndex >= Len(app.results) THEN Untouched
    ELSE LET result == app.results[resultIndex + 1]
         IN  IF newTab THEN [Untouched EXCEPT !.opened = <<UrlOf(result)>>]
             ELSE [Untouched EXCEPT !.location = UrlOf(result)]

\* showQuickLook()
ShowQuickLook ==
    IF resultIndex < 0 \/ resultIndex >= Len(app.results) THEN Untouched
    ELSE [Untouched EXCEPT !.appUi.showQuickLook = TRUE,
                           !.appUi.quickLookData = app.results[resultIndex + 1]]

\* the keys that handleKeyDown passes to navigateSuggestions
SuggestionKeys == {"ArrowDown", "ArrowUp", "Tab"}

\* event.key === 'Enter' && this.resultIndex >= 0
EnterOpensResult(event) == event.key = "Enter" /\ resultIndex >= 0

\* KeyboardNavigation.handleKeyDown(event)
KeyboardNavigationHandleKeyDown(event) ==
    IF ModifierPressed(event) /\ event.key = "k" THEN FocusSearch
    ELSE IF event.key = "Escape" THEN HandleEscape
    ELSE IF ModifierPressed(event) /\ event.key \in {"1", "2", "3", "4"}
    THEN KeySwitchTab(ParseInt(event.key) - 1)
    ELSE IF appUi.showSuggestions /\ event.key \in SuggestionKeys
    THEN NavigateSuggestions(event)
    ELSE IF /\ Len(app.results) > 0 /\ ~appUi.isSearchFocused
            /\ event.key \in {"j", "ArrowDown"}
    THEN NavigateResults("down")
    ELSE IF /\ Len(app.results) > 0 /\ ~appUi.isSearchFocused
            /\ event.key \in {"k", "ArrowUp"}
    THEN NavigateResults("up")
    ELSE IF EnterOpensResult(event) THEN OpenResult(ModifierPressed(event))
    ELSE IF event.key = " " /\ resultIndex >= 0 /\ ~appUi.isSearchFocused
    THEN ShowQuickLook
    ELSE Untouched

\* openAllSelected(): the URLs given to window.open, one for each selected
\* index that has a result
OpenAllSelected ==
    LET found == SelectSeq(selectedItems, LAMBDA index : index + 1 \in DOMAIN app.results)
    IN  [i \in DOMAIN found |-> UrlOf(app.results[found[i] + 1])]

\* MultiSelect.handleKeyDown(event)
MultiSelectHandleKeyDown(event) ==
    IF (event.metaKey \/ event.ctrlKey) /\ event.key = "Enter" /\ selectedItems # <<>>
    THEN [selectedItems |-> <<>>, opened |-> OpenAllSelected]
    ELSE IF event.key = "Escape" /\ selectedItems # <<>>
    THEN [selectedItems |-> <<>>, opened |-> <<>>]
    ELSE [selectedItems |-> selectedItems, opened |-> <<>>]

\* what the listeners of the page leave alone
KeysFrame ==
    /\ UNCHANGED <<isMetaKey, listenerOrder>>
    /\ UNCHANGED <<tabs, tabObjects, activeTabId, nextTabId, app, scrollY,
                   scrollTimers, lastCalls, userScrolled, storage>>
    /\ UNCHANGED <<config, argument, options, pc, attempt, lastError, timer,
                   controller, abortedSignals, response, httpAttempts, url, fetchLog,
                   attemptLog, delays, outcome, wrapperArgs, constructorArgs, self,
                   other, bodyUsed>>

\* no TabManager and no stored history on the page
NoTabManager ==
    /\ tabs = <<>>
    /\ tabObjects = <<>>
    /\ activeTabId = NoTab
    /\ nextTabId = 1
    /\ scrollY = 0
    /\ scrollTimers = <<>>
    /\ lastCalls = <<>>
    /\ userScrolled = FALSE
    /\ storage = NoItem

\* new MultiSelect(app) and new KeyboardNavigation(app), in either order, on
\* a page that shows results
InitKeys ==
    /\ ClientIdle
    /\ NoTabManager
    /\ app \in {a \in AppStates : Len(a.results) = 2}
    /\ selectedItems = <<>>
    /\ resultIndex = -1
    /\ suggestionIndex = -1
    /\ isMetaKey \in {"metaKey", "ctrlKey"}
    /\ appUi = [PlainUi EXCEPT !.suggestions = Suggestions]
    /\ inputFocused = FALSE
    /\ opened = <<>>
    /\ location = PageUrl
    /\ appCalls = <<>>
    /\ lastKey = NoKey
    /\ listenerOrder \in {"MultiSelect", "KeyboardNavigation"}

\* a keydown event on the document: both listeners run, in the order they
\* were added
KeyDown(event) ==
    /\ location = PageUrl
    /\ LET ms == MultiSelectHandleKeyDown(event)
           kn == KeyboardNavigationHandleKeyDown(event)
       IN  /\ selectedItems' = ms.selectedItems
           /\ resultIndex' = kn.resultIndex
           /\ suggestionIndex' = kn.suggestionIndex
           /\ appUi' = kn.appUi
           /\ inputFocused' = kn.inputFocused
           /\ location' = kn.location
           /\ appCalls' = kn.appCalls
           /\ opened' = IF listenerOrder = "MultiSelect" THEN ms.opened \o kn.opened
                        ELSE kn.opened \o ms.opened
    /\ lastKey' = event
    /\ KeysFrame

\* MultiSelect.handleClick(event) on the result card at index
Click(index, isMetaPressed) ==
    /\ location = PageUrl
    /\ index + 1 \in DOMAIN app.results
    /\ selectedItems' =
           IF ~isMetaPressed THEN selectedItems
           ELSE IF \E i \in DOMAIN selectedItems : selectedItems[i] = index
           THEN SelectSeq(selectedItems, LAMBDA x : x # index)
           ELSE Append(selectedItems, index)
    /\ lastKey' = NoKey
    /\ opened' = <<>>
    /\ appCalls' = <<>>
    /\ UNCHANGED <<resultIndex, suggestionIndex, appUi, inputFocused, location>>
    /\ KeysFrame

\* the app opens or closes the context menu, the settings or the
\* suggestion list
OverlayToggles(name) ==
    /\ location = PageUrl
    /\ appUi' = [appUi EXCEPT ![name] = ~@]
    /\ lastKey' = NoKey
    /\ opened' = <<>>
    /\ appCalls' = <<>>
    /\ UNCHANGED <<selectedItems, resultIndex, suggestionIndex, inputFocused,
                   location>>
    /\ KeysFrame

\* the search input gains or loses the focus
FocusChanges ==
    /\ location = PageUrl
    /\ inputFocused' = ~inputFocused
    /\ appUi' = [appUi EXCEPT !.isSearchFocused = ~inputFocused]
    /\ lastKey' = NoKey
    /\ opened' = <<>>
    /\ appCalls' = <<>>
    /\ UNCHANGED <<selectedItems, resultIndex, suggestionIndex, location>>
    /\ KeysFrame

\* the keys on a page where results are selected and suggestions shown
NextKeys ==
    \/ \E event \in KeyEvents : KeyDown(event)
    \/ \E index \in 0..1, isMetaPressed \in BOOLEAN : Click(index, isMetaPressed)
    \/ OverlayToggles("showSuggestions")
    \/ FocusChanges

SpecKeys == InitKeys /\ [][NextKeys]_vars

\* the keys on a page where the context menu and the settings are opened
NextEscape ==
    \/ \E event \in KeyEvents : KeyDown(event)
    \/ \E name \in {"showContextMenu", "showSettings"} : OverlayToggles(name)
    \/ FocusChanges

SpecEscape == InitKeys /\ [][NextEscape]_vars

(***************************************************************************)
(* Vocabulary of the properties                                            *)
(***************************************************************************)
TransientStatuses == {408, 429, 500, 502, 503, 504}

\* the number of attempts the configuration permits
PermittedAttempts == IF enableRetry THEN maxRetries ELSE 1

Done == pc = "done"
RaisedApiError == outcome.kind = "raised" /\ outcome.error.name = "WholphinAPIError"

LastLogged == attemptLog[Len(attemptLog)]

\* the details an error built from response r may carry
DetailsOf(r) ==
    {JsonValue(r.body), TextDetails(r.body),
     TextDetails("Unable to parse error response")}

AllTransient ==
    /\ attemptLog # <<>>
    /\ \A i \in DOMAIN attemptLog :
           attemptLog[i].how = "response" /\ attemptLog[i].status \in TransientStatuses

\* C1: with retries enabled and maxRetries = n >= 1, a call whose every
\* attempt received a transient status ends after exactly n attempts and
\* raises the error built from the response of the n-th attempt
C1_ExhaustedRetriesRaiseLastError ==
    (Done /\ enableRetry /\ maxRetries >= 1 /\ AllTransient) =>
        /\ httpAttempts = maxRetries
        /\ Len(attemptLog) = maxRetries
        /\ RaisedApiError
        /\ outcome.error.message = "API request failed"
        /\ outcome.error.status = response.status
        /\ outcome.error.status = LastLogged.status
        /\ outcome.error.details \in DetailsOf(response)

\* three transient attempts with maxRetries = 3, the last one differing from
\* the one before it in status and body
C1_Witness ==
    /\ Done /\ enableRetry /\ maxRetries = 3 /\ AllTransient
    /\ httpAttempts = 3
    /\ attemptLog[2].status = 500 /\ attemptLog[3].status = 503
    /\ lastError.details = TextDetails(BodyHtml)
    /\ outcome.error.details = JsonValue(BodyError)

\* C2: a call never makes more HTTP attempts than the configuration permits
\* (maxRetries with retry enabled, none when that is negative; 1 with retry
\* disabled), and with retry disabled a call that was given a valid request
\* object and has ended made exactly one attempt
C2_AttemptsBounded ==
    /\ httpAttempts <= (IF PermittedAttempts < 0 THEN 0 ELSE PermittedAttempts)
    /\ (Done /\ ~enableRetry /\ attemptLog # <<>>) => httpAttempts = 1
    /\ (Done /\ ~enableRetry /\ argument = "object"
            /\ outcome.error.message # "Validation failed")
           => httpAttempts = 1

\* retry disabled, maxRetries = 3, a 503 response: one attempt
C2_Witness ==
    /\ Done /\ ~enableRetry /\ maxRetries = 3
    /\ response.status = 503
    /\ httpAttempts = 1

\* C3: an attempt that received a non-success status outside the transient
\* set is the last attempt of the call and is followed by no delay; the call
\* raises an error carrying that status, marked non-retryable
C3_PermanentStatusRaisesAtOnce ==
    \A i \in DOMAIN attemptLog :
        LET a == attemptLog[i]
        IN  (/\ a.how = "response"
             /\ (a.status < 200 \/ a.status > 299)
             /\ a.status \notin TransientStatuses) =>
                /\ i = Len(attemptLog)
                /\ httpAttempts = i
                /\ Len(delays) = i - 1
                /\ pc \in {"errorBody", "done"}
                /\ Done =>
                       /\ RaisedApiError
                       /\ outcome.error.status = a.status
                       /\ outcome.error.isRetryable = FALSE

\* a 404 on the second of three permitted attempts
C3_Witness ==
    /\ Done /\ enableRetry /\ maxRetries = 3
    /\ Len(attemptLog) = 2 /\ attemptLog[2].status = 404
    /\ httpAttempts = 2 /\ Len(delays) = 1
    /\ outcome.error.status = 404 /\ ~outcome.error.isRetryable

\* the validation rules, as the specification words them
AllSpaces(s) == \A i \in DOMAIN s : s[i] = " "
QueryViolated(q) ==
    \/ q.t \in {"undefined", "null"}
    \/ q.t # "string"
    \/ AllSpaces(q.s)
    \/ Len(q.s) > 1000
IntegerIn(v, lo, hi) == v.t = "number" /\ v.d = 0 /\ v.n >= lo /\ v.n <= hi
PageViolated(v) == v # Undefined /\ ~IntegerIn(v, 1, 10)
SafesearchViolated(v) == v # Undefined /\ ~IntegerIn(v, 0, 2)
LangViolated(v) == v # Undefined /\ v \notin {Str(<<"j", "a">>), Str(<<"e", "n">>)}
TypeViolated(v) ==
    v # Undefined /\ v \notin {Str(SearchType[i]) : i \in DOMAIN SearchType}

ViolatedFields(o) ==
    {f \in {"q", "page", "safesearch", "lang", "type"} :
        \/ f = "q" /\ QueryViolated(o.q)
        \/ f = "page" /\ PageViolated(o.page)
        \/ f = "safesearch" /\ SafesearchViolated(o.safesearch)
        \/ f = "lang" /\ LangViolated(o.lang)
        \/ f = "type" /\ TypeViolated(o.type)}

RaisedValidationError ==
    /\ RaisedApiError
    /\ outcome.error.message = "Validation failed"
    /\ outcome.error.status = NoStatus
    /\ outcome.error.details.kind = "errors"

\* C4: a request that violates a validation rule makes no HTTP attempt, and
\* search ends by raising a validation error
C4_InvalidRequestNoAttempt ==
    ViolatedFields(options) # {} =>
        /\ httpAttempts = 0
        /\ pc \in {"idle", "done"}
        /\ Done => RaisedValidationError

\* a query of two spaces, rejected without an attempt
C4_Witness ==
    /\ Done /\ options.q = Str(<<" ", " ">>) /\ options.page = Num(1)
    /\ RaisedValidationError
    /\ httpAttempts = 0

IsIn(seq, x) == \E i \in DOMAIN seq : seq[i] = x

\* C5: the validation error lists one violation for each violated field:
\* as many entries as violated fields, and an out-of-range page, an
\* out-of-range safesearch and a disallowed lang each have their entry
C5_AllViolationsListed ==
    (Done /\ ViolatedFields(options) # {}) =>
        /\ RaisedValidationError
        /\ LET errors == outcome.error.details.v
           IN  /\ Len(errors) = Cardinality(ViolatedFields(options))
               /\ (IsInteger(options.page) /\ PageViolated(options.page))
                      => IsIn(errors, "Page must be between PAGE_MIN and PAGE_MAX")
               /\ (IsInteger(options.safesearch)
                       /\ SafesearchViolated(options.safesearch))
                      => IsIn(errors,
                              "Safesearch must be between SAFESEARCH_MIN and SAFESEARCH_MAX")
               /\ (options.lang.t = "string" /\ LangViolated(options.lang))
                      => IsIn(errors, "Language must be one of ALLOWED_LANGUAGES")

\* all five fields violated at once
C5_Witness ==
    /\ Done
    /\ options.q = Str(<<>>) /\ options.page = Num(11)
    /\ options.safesearch = Num(3) /\ options.lang = Str(<<"f", "r">>)
    /\ options.type = Str(<<"b", "l", "o", "g">>)
    /\ Len(outcome.error.details.v) = 5

\* the attempt at hand received a success response (2xx)
SuccessResponse == response # NoResponse /\ response.status \in 200..299
JsonContentType == response.contentType = "application/json"
ValidJsonBodies == {BodyResults, BodyError}

\* every attempt before the last logged one failed with a retryable error
\* and was followed by one delay
EarlierFailuresRetried ==
    /\ Len(delays) = Len(attemptLog) - 1
    /\ attempt = Len(attemptLog) - 1
    /\ \A i \in 1..(Len(attemptLog) - 1) :
           \/ attemptLog[i].how \in {"timeout", "network"}
           \/ attemptLog[i].status \in TransientStatuses
           \/ attemptLog[i].status \in 200..299

C7_NonJsonSuccessRaises ==
    (SuccessResponse /\ ~JsonContentType /\ pc # "textBody") =>
        /\ Done
        /\ RaisedApiError
        /\ outcome.error.message = "Invalid response format"
        /\ outcome.error.isRetryable = FALSE
        /\ httpAttempts = Len(attemptLog)

RetryableFlagMatchesKind(e) ==
    /\ e.message \in {"Validation failed", "Invalid response format",
                      "Request timeout", "Network error", "API request failed"}
    /\ e.message \in {"Validation failed", "Invalid response format"}
           => e.isRetryable = FALSE
    /\ e.message \in {"Request timeout", "Network error"}
           => e.isRetryable = TRUE /\ e.status = NoStatus
    /\ e.message = "API request failed"
           => (e.isRetryable <=> e.status \in TransientStatuses)

\* C8: every WholphinAPIError raised by search (and every one kept in
\* lastError) has the retryable flag of its kind
C8_RetryableFlagMatchesKind ==
    /\ RaisedApiError => RetryableFlagMatchesKind(outcome.error)
    /\ lastError.name = "WholphinAPIError" => RetryableFlagMatchesKind(lastError)

\* a 501 raised as non-retryable after a retryable timeout
C8_Witness ==
    /\ Done /\ RaisedApiError
    /\ outcome.error.message = "API request failed"
    /\ outcome.error.status = 501 /\ ~outcome.error.isRetryable
    /\ lastError.message = "Request timeout" /\ lastError.isRetryable

\* C9: the i-th delay of a call follows the failed attempt with index
\* k = i - 1 and lies in [1000 * 2^k, 1000 * 2^k + 1000); each delay is
\* strictly longer than the one before it
C9_BackoffDelayRange ==
    /\ pc = "delay" => Len(delays) = attempt + 1
    /\ \A i \in DOMAIN delays :
           /\ delays[i] >= 1000 * 2^(i - 1)
           /\ delays[i] < 1000 * 2^(i - 1) + 1000
           /\ i > 1 => delays[i] > delays[i - 1]

\* the longest first delay followed by the shortest second delay
C9_Witness ==
    /\ pc = "delay" /\ attempt = 1
    /\ delays = <<1999, 2000>>

TimeoutError(e) ==
    /\ e.name = "WholphinAPIError"
    /\ e.message = "Request timeout"
    /\ e.status = NoStatus
    /\ e.isRetryable = TRUE

\* C10: a fetch is aborted when its timer fires; an attempt that timed out
\* fails with a status-less retryable timeout error; with attempts left the
\* call backs off once and then fetches again, otherwise it raises that error
C10_TimeoutRetriedOrRaised ==
    /\ timer = "fired" => aborted
    /\ \A i \in DOMAIN attemptLog :
           attemptLog[i].how = "timeout" =>
               IF i < PermittedAttempts
               THEN \/ /\ i = Len(attemptLog) /\ pc = "delay"
                       /\ Len(delays) = i /\ httpAttempts = i
                       /\ aborted /\ TimeoutError(lastError)
                    \/ /\ httpAttempts > i /\ Len(delays) >= i
               ELSE /\ i = Len(attemptLog) /\ Done
                    /\ aborted
                    /\ outcome.kind = "raised" /\ TimeoutError(outcome.error)
                    /\ Len(delays) = i - 1 /\ httpAttempts = i

\* the first attempt timed out and the second fetch is in flight
C10_Witness ==
    /\ pc = "fetch" /\ httpAttempts = 2
    /\ attemptLog = <<[how |-> "timeout", status |-> NoStatus]>>
    /\ TimeoutError(lastError)
    /\ Len(delays) = 1

\* C11: a search call that has ended either returned the parsed JSON result
\* or raised a WholphinAPIError
C11_ReturnsOrRaisesApiError ==
    Done =>
        \/ outcome.kind = "returned" /\ outcome.value.kind = "json"
        \/ RaisedApiError

\* the wrapper has called search
WrapperCalled == wrapperArgs # NoWrapper /\ pc = "idle"

\* C12: the request a wrapper passes to search carries the wrapper's type
\* and the query given as first argument, and every other field of the
\* options as given
C12_WrapperFixesTypeAndQuery ==
    WrapperCalled =>
        /\ argument = "object"
        /\ options.type = Str(WrapperType(wrapperArgs.name))
        /\ options.q = wrapperArgs.query
        /\ options.page = Get(wrapperArgs.options, "page")
        /\ options.safesearch = Get(wrapperArgs.options, "safesearch")
        /\ options.lang = Get(wrapperArgs.options, "lang")

\* the constructor has run
Constructed == constructorArgs # NoConstructorArgs /\ pc \in {"idle", "noClient"}

\* the base URL the constructor works with
GivenBaseUrl ==
    IF constructorArgs.baseUrl = Undefined
    THEN API_BASE_URL
    ELSE StringOf(constructorArgs.baseUrl)

\* C13: the constructor given a base URL that has another scheme than http
\* or https, or that does not parse, raises a non-retryable WholphinAPIError
\* without status and sets no field of a client; given an http or https URL
\* it raises nothing and stores that URL
C13_ConstructorChecksBaseUrl ==
    Constructed =>
        IF GivenBaseUrl \in HttpUrls
        THEN pc = "idle" /\ outcome = Pending /\ baseUrl = GivenBaseUrl
        ELSE /\ pc = "noClient"
             /\ RaisedApiError
             /\ ~outcome.error.isRetryable
             /\ outcome.error.status = NoStatus
             /\ baseUrl = NoClient

C13_Witness ==
    /\ Constructed
    /\ GivenBaseUrl \in OtherSchemeUrls
    /\ pc = "noClient"
    /\ RaisedApiError

\* the segments of s between the occurrences of the unit c
RECURSIVE SplitOn(_, _)
SplitOn(s, c) ==
    LET i == IndexOf(s, c)
    IN  IF i = 0 THEN <<s>>
        ELSE <<SubSeq(s, 1, i - 1)>> \o SplitOn(SubSeq(s, i + 1, Len(s)), c)

\* the character a unit of a URL stands for
DecodeUnit(u) ==
    CASE u = "%20" -> " "
      [] u = "%26" -> "&"
      [] u = "%3D" -> "="
      [] u = "%3F" -> "?"
      [] u = "%2F" -> "/"
      [] u = "%23" -> "#"
      [] u = "%25" -> "%"
      [] u = "%2B" -> "+"
      [] u = "%3A" -> ":"
      [] OTHER -> u
Decode(units) == [i \in DOMAIN units |-> DecodeUnit(units[i])]

\* the name of a request field as it is written in a query string
ParamName(k) ==
    CASE k = "q" -> <<"q">>
      [] k = "page" -> <<"p", "a", "g", "e">>
      [] k = "type" -> <<"t", "y", "p", "e">>
      [] k = "safesearch" -> <<"s", "a", "f", "e", "s", "e", "a", "r", "c", "h">>
      [] k = "lang" -> <<"l", "a", "n", "g">>

\* the fields of the request that are neither null nor undefined
GivenFields == {k \in Keys : options[k] # Undefined /\ options[k] # Null}

\* the text of the value a field of the request is sent with
SentValue(k) ==
    IF k = "q" THEN Trim(options.q.s)
    ELSE IF options[k].t = "number" THEN DigitsOf(options[k].n)
    ELSE options[k].s

\* the URL u is {baseUrl}/search?name=value&... with one pair for each given
\* field of the request and no other pair
IsSearchUrl(u) ==
    LET prefix == baseUrl \o SearchEndpoint \o <<"?">>
        segments == SplitOn(SubSeq(u, Len(prefix) + 1, Len(u)), "&")
        pairs == [j \in DOMAIN segments |-> SplitOn(segments[j], "=")]
    IN  /\ Len(u) > Len(prefix)
        /\ SubSeq(u, 1, Len(prefix)) = prefix
        /\ \A j \in DOMAIN pairs : Len(pairs[j]) = 2
        /\ {Decode(pairs[j][1]) : j \in DOMAIN pairs} = {ParamName(k) : k \in GivenFields}
        /\ Len(pairs) = Cardinality(GivenFields)
        /\ "q" \in GivenFields
        /\ \A j \in DOMAIN pairs : \A k \in GivenFields :
               Decode(pairs[j][1]) = ParamName(k) => Decode(pairs[j][2]) = SentValue(k)

\* C14: every call of fetch of a search call is a GET of {baseUrl}/search
\* with a query string that holds exactly the fields among q, page, type,
\* safesearch, lang that are neither null nor undefined, each once, q being
\* the trimmed query (stated of the call of fetch in flight); all the calls
\* of fetch of one search call have the same URL
C14_EveryAttemptGetsSearchUrl ==
    /\ Len(fetchLog) = httpAttempts
    /\ pc = "fetch" => IsSearchUrl(fetchLog[httpAttempts].url)
    /\ \A i \in DOMAIN fetchLog :
           /\ fetchLog[i].method = "GET"
           /\ fetchLog[i].url = fetchLog[1].url

C14_Witness ==
    /\ Len(fetchLog) = 1
    /\ options.q = Str(<<"a", "&", "q", "=", "b">>)
    /\ options.page = Num(PAGE_MAX)
    /\ options.lang = Undefined
    /\ options.safesearch = Num(SAFESEARCH_MIN)
    /\ options.type = Str(<<"p", "a", "n", "e", "l">>)
    /\ pc = "fetch"

\* the other call's fetch has been aborted
OtherAborted == other.controller \in abortedSignals

\* the step is the timer of the current call firing
TimerFiring == self' = self /\ timer = "armed" /\ timer' = "fired"

\* C15: with two search calls in flight on one client, the request of a
\* call is aborted only when that call's own timer has fired, and the firing
\* of one call's timer leaves the other call, its request and its outcome
\* as they are
C15_TimeoutAbortsOwnRequestOnly ==
    /\ [](/\ aborted => timer = "fired"
          /\ OtherAborted => other.timer = "fired")
    /\ [][TimerFiring => /\ aborted'
                         /\ other' = other
                         /\ OtherAborted' = OtherAborted]_vars

C15_Witness ==
    /\ pc = "fetch" /\ timer = "fired" /\ aborted
    /\ other.pc = "fetch" /\ other.timer = "armed" /\ ~OtherAborted

\* what a finished call c returned or raised is what its own last attempt
\* gave, and every fetch of c was given the URL of c's own request
OutcomeFromOwnAttempts(c) ==
    /\ \A i \in DOMAIN c.fetchLog :
           c.fetchLog[i].url = baseUrl \o SearchEndpoint \o <<"?", "q", "=">> \o c.options.q.s
    /\ Len(c.attemptLog) <= PermittedAttempts
    /\ (c.pc = "done" /\ c.attemptLog # <<>>) =>
           LET last == c.attemptLog[Len(c.attemptLog)]
           IN  IF c.outcome.kind = "returned"
               THEN last.how = "response" /\ last.status \in 200..299
               ELSE /\ c.outcome.kind = "raised"
                    /\ c.outcome.error.status = last.status
                    /\ (c.outcome.error.message = "Request timeout") = (last.how = "timeout")
                    /\ (c.outcome.error.message = "Network error") = (last.how = "network")

\* C16: no step of a search call changes baseUrl, timeout, maxRetries or
\* enableRetry, and a step of one call changes nothing of the other call;
\* with two calls interleaved in every way, what each call returns or raises
\* comes from its own request and its own attempts
C16_NoSharedStateWritten ==
    /\ [][/\ UNCHANGED <<baseUrl, timeout, maxRetries, enableRetry>>
          /\ self' = self => other' = other /\ OtherAborted' = OtherAborted]_vars
    /\ [](OutcomeFromOwnAttempts(CallState) /\ OutcomeFromOwnAttempts(other))

C16_Witness ==
    /\ pc = "done" /\ outcome.kind = "returned" /\ httpAttempts = 1
    /\ other.pc = "done" /\ other.outcome.kind = "raised"
    /\ Len(other.attemptLog) = ConcurrentRetries
    /\ other.attemptLog[1].how = "timeout"

\* C17: when every fetch in flight settles or is aborted by its timer, every
\* body read finishes and every delay elapses, a search call ends: it
\* returns or raises
C17_CallCompletes == <>Done

C17_Witness ==
    /\ Done
    /\ outcome.kind = "returned"
    /\ Len(delays) = 1
    /\ attemptLog[1].how = "timeout"
    /\ attemptLog[2].how = "response"

\* the call waits for something outside itself
Suspended == pc \in {"fetch", "errorBody", "textBody", "jsonBody", "delay"}

\* C18: whenever a search call is suspended it awaits either the network
\* response, with the timeout timer of the attempt running or fired, or the
\* delay between two attempts
C18_SuspendedAtFetchOrDelay ==
    Suspended =>
        \/ pc = "fetch" /\ timer \in {"armed", "fired"}
        \/ pc = "delay"

\* C19: the timeout timer of an attempt is pending only while the fetch of
\* that attempt is in flight: once the fetch has returned a response, failed
\* or been aborted the timer is cancelled or has fired, so none is pending
\* during a body read, a delay or after the call has ended
C19_NoTimerOutlivesItsFetch ==
    /\ timer = "armed" => pc = "fetch" /\ ~aborted
    /\ (pc \in {"errorBody", "textBody", "jsonBody", "delay"} \/ (Done /\ httpAttempts >= 1))
           => timer \in {"cleared", "fired"}

C19_Witness ==
    /\ pc = "delay"
    /\ timer = "cleared"
    /\ LastLogged.how = "network"
    /\ httpAttempts = 2

\* C20: no delay follows the failure that ends the call, and exactly one
\* delay lies between two consecutive attempts: a call that made n attempts
\* has waited n - 1 delays when an attempt is under way or the call has
\* ended, and waits the n-th delay only after a retryable failure that is
\* not on the last permitted attempt
C20_OneDelayBetweenAttempts ==
    /\ pc \in {"fetch", "errorBody", "textBody", "jsonBody"} => Len(delays) = httpAttempts - 1
    /\ pc = "delay" =>
           /\ Len(delays) = httpAttempts
           /\ httpAttempts < PermittedAttempts
           /\ lastError.isRetryable
    /\ Done => Len(delays) = (IF httpAttempts = 0 THEN 0 ELSE httpAttempts - 1)
    /\ (Done /\ AllTransient /\ httpAttempts = PermittedAttempts)
           => Len(delays) = PermittedAttempts - 1

C20_Witness ==
    /\ Done
    /\ AllTransient
    /\ enableRetry /\ maxRetries = 3
    /\ Len(attemptLog) = 3
    /\ Len(delays) = 2
    /\ outcome.kind = "raised"

\* C21: a search call whose request passes validation has made at least one
\* call of fetch when it has ended, whatever maxRetries and enableRetry are
C21_ValidRequestIsAttempted ==
    (Done /\ argument = "object" /\ ValidationErrors(options) = <<>>)
        => httpAttempts >= 1

\* C22: a successful (2xx) response is the last response of its search call:
\* no fetch is made after it
C22_NoAttemptAfterSuccess ==
    \A i \in DOMAIN attemptLog :
        (attemptLog[i].how = "response" /\ attemptLog[i].status \in 200..299)
            => i = httpAttempts

\* the request with undefined in the place of each null among page,
\* safesearch, lang and type
NullAsNotGiven(o) ==
    [k \in {"q", "page", "safesearch", "lang", "type"} |->
        IF k # "q" /\ o[k] = Null THEN Undefined ELSE o[k]]

\* C23: a request is treated as the same request with its null parameters
\* left out: when that one is valid, validation accepts the request and the
\* URL fetched is the one without those parameters
C23_NullIsNotGiven ==
    (argument = "object" /\ pc # "idle"
        /\ ValidationErrors(NullAsNotGiven(options)) = <<>>)
        => /\ ~RaisedValidationError
           /\ fetchLog # <<>> =>
                  fetchLog[1].url =
                      RequestUrl(baseUrl, SearchEndpoint,
                                 SearchParams(NullAsNotGiven(options)))

\* C24: in the client of src/js/api.js a response that is not a success ends
\* the call with a WholphinAPIError that has the status of the response, and
\* a "Network error" without status is raised only when fetch gave no
\* response
C24_ErrorStatusIsResponseStatus ==
    (Done /\ attemptLog # <<>>) =>
        /\ (LastLogged.how = "response" /\ LastLogged.status \notin 200..299)
               => RaisedApiError /\ outcome.error.status = LastLogged.status
        /\ (RaisedApiError /\ outcome.error.message = "Network error")
               => LastLogged.how = "network"


(***************************************************************************)
(* TabManager                                                              *)
(***************************************************************************)
\* the step is a call of op on the component
Called(op) ==
    lastCalls' # lastCalls /\ lastCalls' # <<>> /\ lastCalls'[1].op = op
\* the argument of the call the step makes
CalledArg == lastCalls'[1].arg

Position(list, tabId) == CHOOSE i \in DOMAIN list : list[i] = tabId

TabsWellFormed ==
    /\ tabs # <<>>
    /\ Cardinality({i \in DOMAIN tabs : tabs[i] = activeTabId}) = 1

\* C25: after construction and any sequence of createTab, switchTab and
\* closeTab the tab list is non-empty and activeTabId is the id of exactly
\* one tab of the list; closeTab on the only remaining tab or on an unknown
\* id changes nothing
C25_TabListNeverEmpty ==
    /\ []TabsWellFormed
    /\ [][(Called("closeTab") /\ (Len(tabs) = 1 \/ CalledArg \notin IdsOf(tabs)))
              => UNCHANGED <<tabs, tabObjects, activeTabId, nextTabId, app, scrollY,
                             scrollTimers>>]_vars

\* closeTab was called on the only tab left, after other tabs were created
\* and closed
C25_Witness ==
    /\ lastCalls # <<>>
    /\ lastCalls[1].op = "closeTab"
    /\ tabs = <<lastCalls[1].arg>>
    /\ lastCalls[1].active = lastCalls[1].arg
    /\ nextTabId > 2

\* the tab next to position i of the list: the one before it, or the one at
\* the second place for the first
Adjacent(list, i) == IF i = 1 THEN list[2] ELSE list[i - 1]

Without(list, tabId) == SelectSeq(list, LAMBDA id : id # tabId)

\* the app shows the query, type, results and page stored in the tab object
AppShows(shown, tab) ==
    /\ shown.query = tab.query
    /\ shown.currentType = tab.type
    /\ shown.results = tab.results
    /\ shown.currentPage = tab.page

\* C26: closeTab on the active tab at position i of two or more tabs removes
\* it and activates the tab that was before it, or the tab that was second
\* when it was first, and loads that tab's saved query, type, results and
\* page into the app; closeTab on a tab that is not active leaves the active
\* tab and the app as they were
C26_CloseActivatesAdjacent ==
    [][Called("closeTab") =>
          /\ (CalledArg = activeTabId /\ Len(tabs) >= 2)
                 => LET next == Adjacent(tabs, Position(tabs, CalledArg))
                    IN  /\ tabs' = Without(tabs, CalledArg)
                        /\ activeTabId' = next
                        /\ AppShows(app', tabObjects[next])
          /\ CalledArg # activeTabId
                 => /\ activeTabId' = activeTabId
                    /\ app' = app
                    /\ tabs' = IF Len(tabs) >= 2 THEN Without(tabs, CalledArg) ELSE tabs]_vars

\* the third of three tabs was active and was closed: the second, which
\* had a query saved, is active
C26_Witness ==
    /\ lastCalls # <<>>
    /\ lastCalls[1].op = "closeTab"
    /\ lastCalls[1].active = lastCalls[1].arg
    /\ lastCalls[1].arg \notin IdsOf(tabs)
    /\ Len(tabs) = 2
    /\ activeTabId = tabs[2]
    /\ app.query # <<>>

\* the query, type, results and page of the app, as a tab stores them
AppStored(shown) ==
    [query |-> shown.query, type |-> shown.currentType, results |-> shown.results,
     page |-> shown.currentPage]

StoredIn(objects, tabId) ==
    [query |-> objects[tabId].query, type |-> objects[tabId].type,
     results |-> objects[tabId].results, page |-> objects[tabId].page]

\* C27: when the app state is not modified between the switches, switching
\* from tab A to tab B and back to A leaves the app's query, type, results
\* and page as they were before the first switch and B's stored state
\* unchanged; a tab's stored state is only ever overwritten with the app
\* state that is current while that tab is the active one
C27_SwitchRoundTrip ==
    [][/\ (Called("switchTab") /\ lastCalls'[1].back)
              => /\ AppStored(app') = AppStored(lastCalls[1].app)
                 /\ StoredIn(tabObjects', activeTabId) = lastCalls[1].stored
                 /\ activeTabId' = lastCalls[1].active
       /\ \A t \in DOMAIN tabObjects :
              StoredIn(tabObjects', t) # StoredIn(tabObjects, t)
                  => t = activeTabId /\ StoredIn(tabObjects', t) = AppStored(app)]_vars

\* the app has gone from a tab with one query to a tab with another and
\* back
C27_Witness ==
    /\ lastCalls # <<>>
    /\ lastCalls[1].back
    /\ activeTabId = lastCalls[1].arg
    /\ app.query # <<>>
    /\ tabObjects[lastCalls[1].active].query # <<>>
    /\ tabObjects[lastCalls[1].active].query # app.query

\* the window has not yet been scrolled to the position of the tab: the
\* timer of the switch to it has not fired
RestorePending(tabId) == \E i \in DOMAIN scrollTimers : scrollTimers[i] = tabId

\* C28: switching away from a tab and back restores the scroll position the
\* tab had when it was left: the position saved for a tab is the position
\* the window had while showing that tab, and a tab left before the 100 ms
\* timer of the switch to it has fired, the window still being where the
\* tab before it was and the user not having scrolled, keeps the position
\* it had saved
C28_ScrollPositionRestored ==
    [][/\ \A t \in IdsOf(tabs) \cap IdsOf(tabs') :
              (t = activeTabId /\ activeTabId' # t)
                  => tabObjects'[t].scrollPosition =
                         IF RestorePending(t) /\ ~userScrolled
                         THEN tabObjects[t].scrollPosition
                         ELSE scrollY
       /\ (scrollTimers # <<>> /\ scrollTimers' = Tail(scrollTimers)
            /\ Head(scrollTimers) = activeTabId /\ ~RestorePending(activeTabId)')
              => scrollY' = tabObjects[activeTabId].scrollPosition]_vars

(***************************************************************************)
(* SearchHistory                                                           *)
(***************************************************************************)
\* the step is a call of op on the history
HistoryCalled(op) == lastCalls' # <<>> /\ lastCalls'[1].op = op

\* the queries of the entries stored, newest first
QueriesOf(data) ==
    IF data = NoItem THEN <<>> ELSE [i \in DOMAIN data.value |-> data.value[i].query]

IsBlank(query) == \A i \in DOMAIN query : query[i] = " "

\* C29: after any sequence of add, remove and clear from empty storage the
\* history holds at most 20 entries; adding a new query to a history of 20
\* distinct queries drops the oldest (last) entry and keeps the other 19 in
\* order behind the new one
C29_HistoryCapped ==
    /\ [](Len(QueriesOf(storage)) <= 20)
    /\ [][(/\ HistoryCalled("add")
           /\ Len(QueriesOf(storage)) = 20
           /\ ~IsBlank(CalledArg)
           /\ LET queries == QueriesOf(storage)
              IN  CalledArg \notin {queries[i] : i \in DOMAIN queries})
              => QueriesOf(storage') = <<CalledArg>> \o SubSeq(QueriesOf(storage), 1, 19)]_vars

\* a new query was added to a full history: it is first and the second
\* query ever added is the oldest left
C29_Witness ==
    /\ lastCalls # <<>>
    /\ lastCalls[1].op = "add"
    /\ Len(QueriesOf(storage)) = 20
    /\ QueriesOf(storage)[1] = lastCalls[1].arg
    /\ QueriesOf(storage)[1] = Query(21)
    /\ QueriesOf(storage)[20] = Query(2)

\* list without the elements equal to query
Others(list, query) == SelectSeq(list, LAMBDA q : q # query)

IsPrefix(short, long) ==
    Len(short) <= Len(long) /\ short = SubSeq(long, 1, Len(short))

\* C30: no two stored entries have the same query string; after add(q) with
\* a non-blank q, q is the first entry and the relative order of the other
\* entries is preserved; add with an empty or whitespace-only query leaves
\* the history unchanged
C30_HistoryWithoutDuplicates ==
    /\ [](LET queries == QueriesOf(storage)
          IN  Cardinality({queries[i] : i \in DOMAIN queries}) = Len(queries))
    /\ [][HistoryCalled("add") =>
             IF IsBlank(CalledArg)
             THEN storage' = storage
             ELSE /\ QueriesOf(storage')[1] = CalledArg
                  /\ IsPrefix(Tail(QueriesOf(storage')),
                              Others(QueriesOf(storage), CalledArg))
                  /\ Len(QueriesOf(storage')) >= Len(Others(QueriesOf(storage), CalledArg))
                  ]_vars

\* the oldest of three queries was added again: it is first, before the
\* third and the second
C30_Witness ==
    /\ lastCalls # <<>>
    /\ lastCalls[1].op = "add"
    /\ lastCalls[1].arg = Query(1)
    /\ QueriesOf(storage) = <<Query(1), Query(3), Query(2)>>

(***************************************************************************)
(* MultiSelect and KeyboardNavigation                                      *)
(***************************************************************************)
\* the step dispatches a keydown event of the key
KeyPressed(key) == lastKey' # NoKey /\ lastKey'.key = key

\* the URLs of the results selected
SelectedUrls ==
    {UrlOf(app.results[selectedItems[i] + 1]) : i \in DOMAIN selectedItems}

\* C31: with both listeners on the document, Cmd/Ctrl+Enter pressed while
\* the multi-selection is not empty opens exactly the selected results, each
\* once, and clears the selection; no other result is opened and the page is
\* not navigated away, whatever the focused result index is
C31_ModifierEnterOpensSelection ==
    [][(/\ KeyPressed("Enter")
        /\ lastKey'.metaKey \/ lastKey'.ctrlKey
        /\ selectedItems # <<>>)
           => /\ {opened'[i] : i \in DOMAIN opened'} = SelectedUrls
              /\ Len(opened') = Cardinality(SelectedUrls)
              /\ selectedItems' = <<>>
              /\ location' = PageUrl]_vars

\* the overlays that are open, of Quick Look, context menu and settings
OpenOverlays(ui) ==
    {name \in {"showQuickLook", "showContextMenu", "showSettings"} : ui[name]}

\* the overlay that comes first in the order Quick Look, context menu,
\* settings
FirstOverlay(ui) ==
    IF ui.showQuickLook THEN "showQuickLook"
    ELSE IF ui.showContextMenu THEN "showContextMenu"
    ELSE "showSettings"

\* C32: each Escape press handled by KeyboardNavigation closes at most one
\* overlay, in the order Quick Look, context menu, settings; the search
\* input is blurred only by a press made when none of the three is open, so
\* closing k open overlays takes k presses
C32_EscapeClosesOneOverlay ==
    [][KeyPressed("Escape") =>
          IF OpenOverlays(appUi) # {}
          THEN /\ OpenOverlays(appUi') = OpenOverlays(appUi) \ {FirstOverlay(appUi)}
               /\ inputFocused' = inputFocused
          ELSE /\ OpenOverlays(appUi') = {}
               /\ inputFocused' = FALSE]_vars

\* Escape was pressed with the three overlays open and the search input
\* focused: Quick Look is closed, the other two are open, the input keeps
\* the focus
C32_Witness ==
    /\ lastKey.key = "Escape"
    /\ OpenOverlays(appUi) = {"showContextMenu", "showSettings"}
    /\ appUi.quickLookData # NoResult
    /\ inputFocused

\* C33: while the suggestion list is shown and a suggestion has keyboard
\* focus (suggestionIndex >= 0), Enter selects that suggestion:
\* app.selectSuggestion is called with it and suggestionIndex becomes -1
C33_EnterSelectsSuggestion ==
    [][(KeyPressed("Enter") /\ appUi.showSuggestions /\ suggestionIndex >= 0)
           => /\ appCalls' = <<[method |-> "selectSuggestion",
                                arg |-> appUi.suggestions[suggestionIndex + 1]]>>
              /\ suggestionIndex' = -1]_vars
====
